---------------------------- MODULE Spec2Model ----------------------------
(***************************************************************************)
(* Cross-document rule matching and compliance evaluation                  *)
(* (thesuneet7/Rulezzzz).                                                  *)
(*                                                                         *)
(* Python strings are sequences of one-character strings, so that lower(), *)
(* upper(), strip() and the regular expressions of the source are computed *)
(* character by character.  Python values that may be None (or a key that  *)
(* may be absent from a dict) are tagged records: [t |-> tag, ...].        *)
(* Scores are exact rationals <<numerator, denominator>>.                  *)
(***************************************************************************)
EXTENDS Integers, Sequences, FiniteSets, TLC

VARIABLES
    \* harness of compare_thresholds (src/src2/s4_final.py)
    ct_pc, reg_threshold, cmp_threshold, ct_result,
    \* harness of evaluate_trace (src/src/compliance/engine.py)
    ev_pc, trace, ev_result,
    \* compare_rule and find_best_match (src/src2/s4_final.py)
    cr_pc,                  \* position in compare_rule / find_best_match
    use_llm,                \* USE_LLM_FOR_MATCHING
    reg_rule, source_rules, \* the arguments of compare_rule
    all_source_thresholds,  \* the pooled copies of the source thresholds
    reg_index,              \* position of reg_t in reg_thresholds
    cmp_index,              \* position of cmp_t in candidate_thresholds
    best_match, best_score, \* find_best_match's running best (0: None)
    all_compliant, explanations,
    cr_result,              \* what compare_rule returned
    scan_log,               \* what happened to each candidate visited
    match_results,          \* what each find_best_match call returned
    \* harness of format_audit_entry (src/src/reporting/formatter.py)
    fa_pc, fa_result, fa_entry,
    \* TraceabilityLinker.link and _best_match (src/src/linking/linker.py)
    lk_pc,                  \* position in link / _best_match
    lk_rules,               \* the argument of link
    lk_reg,                 \* position of reg in regs
    lk_class,               \* the class of candidates being matched
    lk_cand,                \* position of c in candidates
    lk_best, lk_best_score, \* _best_match's best and best_score
    lk_best_pol,            \* best_pol of the current regulation
    links,                  \* the links built so far
    lk_scores,              \* score of each candidate visited in this call
    \* concurrent evaluations of regulations (main of src/src2/s4_final.py)
    shared_rules,           \* the source rules every evaluation reads
    pe_llm,                 \* USE_LLM_FOR_MATCHING
    pe_oracle,              \* the oracle, a function of the two names
    evals,                  \* the local state of each compare_rule call
    \* harness of string_similarity (src/src2/s4_final.py)
    ss_pc, ss_s1, ss_s2, ss_result,
    \* harness of operators_compatible and normalize_operator
    oc_pc, oc_op1, oc_op2, oc_result,
    \* the pipeline of src/main.py: candidates, extraction, linking, evaluation
    pl_pc,                  \* the stage reached
    pl_documents,           \* the texts of the elements of each document
    pl_candidates,          \* reg_candidates + pol_candidates + sys_candidates
    pl_extracted,           \* what extract_structured_rule returned for each
    pl_rules,               \* structured_rules
    pl_links,               \* trace_links
    pl_results,             \* the results of evaluate_trace
    \* the /process endpoint (src/api.py)
    ap_pc,                  \* position in process_files
    ap_files,               \* the files present under data/raw
    ap_runs,                \* the scripts run_pipeline_step has started
    ap_results,             \* results
    ap_response             \* what the endpoint answered

ct_vars == <<ct_pc, reg_threshold, cmp_threshold, ct_result>>
ev_vars == <<ev_pc, trace, ev_result>>
cr_vars == <<cr_pc, use_llm, reg_rule, source_rules, all_source_thresholds,
             reg_index, cmp_index, best_match, best_score, all_compliant,
             explanations, cr_result, scan_log, match_results>>
fa_vars == <<fa_pc, fa_result, fa_entry>>
lk_vars == <<lk_pc, lk_rules, lk_reg, lk_class, lk_cand, lk_best,
             lk_best_score, lk_best_pol, links, lk_scores>>
pe_vars == <<shared_rules, pe_llm, pe_oracle, evals>>
ss_vars == <<ss_pc, ss_s1, ss_s2, ss_result>>
oc_vars == <<oc_pc, oc_op1, oc_op2, oc_result>>
pl_vars == <<pl_pc, pl_documents, pl_candidates, pl_extracted, pl_rules,
             pl_links, pl_results>>
ap_vars == <<ap_pc, ap_files, ap_runs, ap_results, ap_response>>
vars == <<ct_vars, ev_vars, cr_vars, fa_vars, lk_vars, pe_vars, ss_vars,
          oc_vars, pl_vars, ap_vars>>

\* what the steps of one component leave alone
ct_frame == <<ev_vars, cr_vars, fa_vars, lk_vars, pe_vars,
             ss_vars, oc_vars, pl_vars, ap_vars>>
ev_frame == <<ct_vars, cr_vars, fa_vars, lk_vars, pe_vars,
             ss_vars, oc_vars, pl_vars, ap_vars>>
cr_frame == <<ct_vars, ev_vars, fa_vars, lk_vars, pe_vars,
             ss_vars, oc_vars, pl_vars, ap_vars>>
fa_frame == <<ct_vars, ev_vars, cr_vars, lk_vars, pe_vars,
             ss_vars, oc_vars, pl_vars, ap_vars>>
lk_frame == <<ct_vars, ev_vars, cr_vars, fa_vars, pe_vars,
             ss_vars, oc_vars, pl_vars, ap_vars>>
pe_frame == <<ct_vars, ev_vars, cr_vars, fa_vars, lk_vars,
             ss_vars, oc_vars, pl_vars, ap_vars>>
ss_frame == <<ct_vars, ev_vars, cr_vars, fa_vars, lk_vars,
             pe_vars, oc_vars, pl_vars, ap_vars>>
oc_frame == <<ct_vars, ev_vars, cr_vars, fa_vars, lk_vars,
             pe_vars, ss_vars, pl_vars, ap_vars>>
pl_frame == <<ct_vars, ev_vars, cr_vars, fa_vars, lk_vars,
             pe_vars, ss_vars, oc_vars, ap_vars>>
ap_frame == <<ct_vars, ev_vars, cr_vars, fa_vars, lk_vars,
             pe_vars, ss_vars, oc_vars, pl_vars>>

-----------------------------------------------------------------------------
(* Bounds of the model.                                                    *)

\* value_numeric ranges over the numbers 0 .. MaxNum
MaxNum == 2
\* compare_rule is given at most MaxSourceRules source rules
MaxSourceRules == 2

-----------------------------------------------------------------------------
(* Characters and Python's str methods.                                    *)

UpperLetters == <<"A","B","C","D","E","F","G","H","I","J","K","L","M",
                  "N","O","P","Q","R","S","T","U","V","W","X","Y","Z">>
LowerLetters == <<"a","b","c","d","e","f","g","h","i","j","k","l","m",
                  "n","o","p","q","r","s","t","u","v","w","x","y","z">>
Digits == {"0","1","2","3","4","5","6","7","8","9"}
Whitespace == {" ", "\t", "\n", "\r", "\f"}

UpperSet == { UpperLetters[i] : i \in 1..26 }
LowerSet == { LowerLetters[i] : i \in 1..26 }
IsUpper(c) == c \in UpperSet
IsLower(c) == c \in LowerSet

\* the letter of the other case
LowerOf == [c \in UpperSet |-> LowerLetters[CHOOSE i \in 1..26 : UpperLetters[i] = c]]
UpperOf == [c \in LowerSet |-> UpperLetters[CHOOSE i \in 1..26 : LowerLetters[i] = c]]
CharLower(c) == IF IsUpper(c) THEN LowerOf[c] ELSE c
CharUpper(c) == IF IsLower(c) THEN UpperOf[c] ELSE c

\* str.lower(), str.upper()
Lower(s) == [i \in 1..Len(s) |-> CharLower(s[i])]
Upper(s) == [i \in 1..Len(s) |-> CharUpper(s[i])]

\* str.strip(): leading and trailing whitespace removed
Strip(s) ==
    LET idx == {i \in 1..Len(s) : s[i] \notin Whitespace}
    IN  IF idx = {} THEN <<>>
        ELSE LET lo == CHOOSE i \in idx : \A j \in 1..(i - 1) : s[j] \in Whitespace
                 hi == CHOOSE i \in idx : \A j \in (i + 1)..Len(s) : s[j] \in Whitespace
             IN  SubSeq(s, lo, hi)

-----------------------------------------------------------------------------
(* Python values.  A str-valued dict entry is [t |-> "str", s |-> chars],  *)
(* None is [t |-> "none", s |-> <<>>], an absent key [t |-> "missing",     *)
(* s |-> <<>>].  A value_numeric entry is [t |-> "num" | "bool" | "text" | *)
(* "none" | "missing", v |-> number]; True is 1 and False is 0, as in      *)
(* Python, where bool is a subclass of int.                                *)

Str(s) == [t |-> "str", s |-> s]
NoneStr == [t |-> "none", s |-> <<>>]
MissingStr == [t |-> "missing", s |-> <<>>]

Num(n) == [t |-> "num", v |-> n]
Bool(b) == [t |-> "bool", v |-> IF b THEN 1 ELSE 0]
Text(n) == [t |-> "text", v |-> n]
NoneVal == [t |-> "none", v |-> 0]
MissingVal == [t |-> "missing", v |-> 0]

\* dict.get(key, default): the default replaces an absent key only
Get(entry, default) == IF entry.t = "missing" THEN default ELSE entry

\* truth value of a str-or-None: None and "" are falsy
Truthy(x) == x.t = "str" /\ x.s # <<>>

\* Python's ==: None equals only None, a bool equals the number of the same
\* value (True == 1, False == 0), a non-numeric string equals no number
PyEq(a, b) ==
    IF a.t = "none" \/ b.t = "none" THEN a.t = b.t
    ELSE IF a.t = "text" \/ b.t = "text" THEN a = b
    ELSE a.v = b.v

-----------------------------------------------------------------------------
(* Operators (src/src2/s4_final.py).                                       *)

max_ops == { <<"L","T","E">>, <<"L","T">>, <<"<","=">>, <<"<">> }
min_ops == { <<"G","T","E">>, <<"G","T">>, <<">","=">>, <<">">> }
eq_ops  == { <<"E","Q","U","A","L","S">>, <<"E","Q">>, <<"=">>, <<"=","=">> }

operators_compatible(op1, op2) ==
    IF ~Truthy(op1) \/ ~Truthy(op2) THEN TRUE
    ELSE LET u1 == Upper(op1.s)
             u2 == Upper(op2.s)
         IN  \/ (u1 \in max_ops /\ u2 \in max_ops)
             \/ (u1 \in min_ops /\ u2 \in min_ops)
             \/ (u1 \in eq_ops /\ u2 \in eq_ops)

\* the keys of op_map and what each maps to
op_map_keys == { <<"l","t","e">>, <<"g","t","e">>, <<"l","t">>, <<"g","t">>,
                 <<"e","q","u","a","l","s">>, <<"e","q">>,
                 <<"<","=">>, <<">","=">>, <<"<">>, <<">">>,
                 <<"=">>, <<"=","=">> }
op_map(k) ==
    CASE k \in { <<"l","t","e">>, <<"<","=">> } -> <<"<","=">>
      [] k \in { <<"g","t","e">>, <<">","=">> } -> <<">","=">>
      [] k \in { <<"l","t">>, <<"<">> }         -> <<"<">>
      [] k \in { <<"g","t">>, <<">">> }         -> <<">">>
      [] OTHER                                  -> <<"=","=">>

\* the canonical symbol of an operator, "" for None or ""
normalize_operator(op) ==
    IF ~Truthy(op) THEN <<>>
    ELSE LET k == Strip(Lower(op.s))
         IN  IF k \in op_map_keys THEN op_map(k) ELSE op.s

-----------------------------------------------------------------------------
(* Threshold comparison (src/src2/s4_final.py).                            *)

Result(ok, msg) == [ok |-> ok, msg |-> msg]

\* compare_numbers with a strict bound for a max-type regulation
compare_numbers_strict(reg_op, cmp_op, reg_val, cmp_val) ==
    IF reg_op \in { <<"<","=">>, <<"<">> }
    THEN IF cmp_op \in { <<"<","=">>, <<"<">> }
         THEN IF cmp_val < reg_val
              THEN Result(TRUE, "OK")
              ELSE Result(FALSE, "FAIL")
         ELSE Result(TRUE, "Review needed (operator mismatch)")
    ELSE IF reg_op \in { <<">","=">>, <<">">> }
    THEN IF cmp_op \in { <<">","=">>, <<">">> }
         THEN IF cmp_val >= reg_val
              THEN Result(TRUE, "OK")
              ELSE Result(FALSE, "FAIL")
         ELSE Result(TRUE, "Review needed (operator mismatch)")
    ELSE IF reg_op = <<"=","=">>
    THEN IF cmp_val = reg_val
         THEN Result(TRUE, "OK")
         ELSE Result(FALSE, "FAIL")
    ELSE Result(TRUE, "Review needed (operator mismatch)")

\* lines 163-185: both values are numbers
compare_numbers(reg_op, cmp_op, reg_val, cmp_val) ==
    IF reg_op \in { <<"<","=">>, <<"<">> }
    THEN IF cmp_op \in { <<"<","=">>, <<"<">> }
         THEN IF cmp_val <= reg_val
              THEN Result(TRUE, "OK")
              ELSE Result(FALSE, "FAIL")
         ELSE Result(TRUE, "Review needed (operator mismatch)")
    ELSE IF reg_op \in { <<">","=">>, <<">">> }
    THEN IF cmp_op \in { <<">","=">>, <<">">> }
         THEN IF cmp_val >= reg_val
              THEN Result(TRUE, "OK")
              ELSE Result(FALSE, "FAIL")
         ELSE Result(TRUE, "Review needed (operator mismatch)")
    ELSE IF reg_op = <<"=","=">>
    THEN IF cmp_val = reg_val
         THEN Result(TRUE, "OK")
         ELSE Result(FALSE, "FAIL")
    ELSE Result(TRUE, "Review needed (operator mismatch)")

\* compare_values failing closed on a missing value
compare_values_fail_closed(reg_op, cmp_op, reg_val, cmp_val) ==
    IF reg_val.t = "bool" \/ cmp_val.t = "bool"
    THEN IF PyEq(reg_val, cmp_val)
         THEN Result(TRUE, "Match")
         ELSE Result(FALSE, "Mismatch")
    ELSE IF reg_val.t = "none" \/ cmp_val.t = "none"
    THEN Result(FALSE, "Cannot compare (missing value)")
    ELSE IF reg_val.t = "text" \/ cmp_val.t = "text"
    THEN Result(TRUE, "Cannot compare (non-numeric)")
    ELSE compare_numbers(reg_op, cmp_op, reg_val.v, cmp_val.v)

\* lines 146-161: booleans, None, values float() rejects
compare_values(reg_op, cmp_op, reg_val, cmp_val) ==
    IF reg_val.t = "bool" \/ cmp_val.t = "bool"
    THEN IF PyEq(reg_val, cmp_val)
         THEN Result(TRUE, "Match")
         ELSE Result(FALSE, "Mismatch")
    ELSE IF reg_val.t = "none" \/ cmp_val.t = "none"
    THEN Result(TRUE, "Cannot compare (missing value)")
    ELSE IF reg_val.t = "text" \/ cmp_val.t = "text"
    THEN Result(TRUE, "Cannot compare (non-numeric)")
    ELSE compare_numbers(reg_op, cmp_op, reg_val.v, cmp_val.v)

compare_thresholds(reg_t, cmp_t) ==
    LET reg_op  == normalize_operator(Get(reg_t.operator, Str(<<>>)))
        cmp_op  == normalize_operator(Get(cmp_t.operator, Str(<<>>)))
        reg_val == Get(reg_t.value_numeric, NoneVal)
        cmp_val == Get(cmp_t.value_numeric, NoneVal)
    IN  compare_values(reg_op, cmp_op, reg_val, cmp_val)

-----------------------------------------------------------------------------
(* compare_thresholds applied to one pair of threshold records.            *)

Threshold(p, op, val) == [parameter |-> p, operator |-> op, value_numeric |-> val]

S_ltv_ratio == <<"l","t","v","_","r","a","t","i","o">>
S_LTV == <<"L","T","V">>

\* operators as the extraction step writes them (LTE, GTE, EQUALS, LT, GT),
\* their symbols and lower-case spellings, an unknown one, the empty string,
\* None and an absent key
OperatorInputs ==
    { Str(<<"L","T","E">>), Str(<<"l","t">>), Str(<<"<","=">>), Str(<<"<">>),
      Str(<<"G","T","E">>), Str(<<"g","t">>), Str(<<">","=">>),
      Str(<<"E","Q","U","A","L","S">>), Str(<<"e","q">>), Str(<<"=">>),
      Str(<<"B","E","T","W","E","E","N">>),
      Str(<<>>), NoneStr, MissingStr }

ValueInputs ==
    { NoneVal, MissingVal, Bool(TRUE), Bool(FALSE), Text(0) }
        \cup { Num(n) : n \in 0..MaxNum }

ThresholdInputs ==
    { Threshold(Str(S_ltv_ratio), op, val) : op \in OperatorInputs, val \in ValueInputs }

NoThreshold == Threshold(NoneStr, NoneStr, NoneVal)
NoResult == Result(FALSE, "")

ct_Idle ==
    /\ ct_pc = "idle"
    /\ reg_threshold = NoThreshold
    /\ cmp_threshold = NoThreshold
    /\ ct_result = NoResult

ct_Init ==
    /\ ct_pc = "call"
    /\ reg_threshold \in ThresholdInputs
    /\ cmp_threshold \in ThresholdInputs
    /\ ct_result = NoResult

CompareThresholds ==
    /\ ct_pc = "call"
    /\ ct_result' = compare_thresholds(reg_threshold, cmp_threshold)
    /\ ct_pc' = "done"
    /\ UNCHANGED <<reg_threshold, cmp_threshold>>

-----------------------------------------------------------------------------
(* Scores: exact rationals <<numerator, denominator>>, denominator > 0.    *)

RECURSIVE GCD(_, _)
GCD(a, b) == IF b = 0 THEN a ELSE GCD(b, a % b)

Rat(n, d) == LET g == GCD(n, d) IN IF g = 0 THEN <<0, 1>> ELSE <<n \div g, d \div g>>
RAdd(a, b) == Rat(a[1] * b[2] + b[1] * a[2], a[2] * b[2])
RHalf(a) == Rat(a[1], 2 * a[2])
RLt(a, b) == a[1] * b[2] < b[1] * a[2]
RLe(a, b) == a[1] * b[2] <= b[1] * a[2]
RMax(a, b) == IF RLt(a, b) THEN b ELSE a

-----------------------------------------------------------------------------
(* Name similarity (src/src2/s4_final.py).                                 *)

\* re.sub(r'[^a-z0-9]', '', text.lower()), "" for None or ""
normalize_text(text) ==
    IF ~Truthy(text) THEN <<>>
    ELSE SelectSeq(Lower(text.s), LAMBDA c : IsLower(c) \/ c \in Digits)

\* re.split(r'[_\s]+', s): the pieces between the runs of separators, an
\* empty piece where s starts or ends with a separator
IsSeparator(c) == c = "_" \/ c \in Whitespace
RECURSIVE SplitFrom(_, _, _)
SplitFrom(s, i, piece) ==
    IF i > Len(s) THEN <<piece>>
    ELSE IF IsSeparator(s[i])
    THEN IF i > 1 /\ IsSeparator(s[i - 1])
         THEN SplitFrom(s, i + 1, piece)
         ELSE <<piece>> \o SplitFrom(s, i + 1, <<>>)
    ELSE SplitFrom(s, i + 1, Append(piece, s[i]))
Split(s) == SplitFrom(s, 1, <<>>)

\* re.findall(r'[a-z]+', word): the maximal runs of lower-case letters
RECURSIVE FindAllFrom(_, _, _)
FindAllFrom(word, i, run) ==
    IF i > Len(word) THEN (IF run = <<>> THEN <<>> ELSE <<run>>)
    ELSE IF IsLower(word[i])
    THEN FindAllFrom(word, i + 1, Append(run, word[i]))
    ELSE (IF run = <<>> THEN <<>> ELSE <<run>>) \o FindAllFrom(word, i + 1, <<>>)
FindAll(word) == FindAllFrom(word, 1, <<>>)

stop_words == { <<"m","a","x">>, <<"m","i","n">>, <<"c","o","u","n","t">>,
                <<"r","a","t","i","o">>, <<"v","a","l","u","e">> }

\* the meaningful words of a parameter name
get_words(param) ==
    IF ~Truthy(param) THEN {}
    ELSE LET words == Split(Lower(param.s))
             expanded == UNION { { FindAll(words[k])[n] : n \in 1..Len(FindAll(words[k])) } :
                                   k \in 1..Len(words) }
         IN  { w \in expanded : Len(w) > 2 /\ w \notin stop_words }

\* n1 in n2: n1 is a substring of n2
Contains(n1, n2) ==
    \E i \in 0..(Len(n2) - Len(n1)) :
        \A k \in 1..Len(n1) : n2[i + k] = n1[k]

\* difflib.SequenceMatcher: the length of the common run of a and b that
\* starts at a[i], b[j] and stays within a[..ahi], b[..bhi]
RECURSIVE RunLength(_, _, _, _, _, _)
RunLength(a, i, ahi, b, j, bhi) ==
    IF i > ahi \/ j > bhi \/ a[i] # b[j] THEN 0
    ELSE 1 + RunLength(a, i + 1, ahi, b, j + 1, bhi)

\* find_longest_match(alo, ahi, blo, bhi): <<i, j, k>> with k maximal, then
\* i minimal, then j minimal; k = 0 when nothing matches
LongestMatch(a, alo, ahi, b, blo, bhi) ==
    LET starts == (alo..ahi) \X (blo..bhi)
        runs == { <<p[1], p[2], RunLength(a, p[1], ahi, b, p[2], bhi)>> : p \in starts }
        k == CHOOSE n \in { r[3] : r \in runs } : \A r \in runs : r[3] <= n
        longest == { r \in runs : r[3] = k }
        i == CHOOSE n \in { r[1] : r \in longest } : \A r \in longest : n <= r[1]
        j == CHOOSE n \in { r[2] : r \in { q \in longest : q[1] = i } } :
                 \A r \in { q \in longest : q[1] = i } : n <= r[2]
    IN  IF starts = {} THEN <<alo, blo, 0>> ELSE <<i, j, k>>

\* get_matching_blocks(): the sizes of the matching blocks, summed
RECURSIVE MatchingSize(_, _, _, _, _, _)
MatchingSize(a, alo, ahi, b, blo, bhi) ==
    LET m == LongestMatch(a, alo, ahi, b, blo, bhi)
    IN  IF m[3] = 0 THEN 0
        ELSE m[3] + MatchingSize(a, alo, m[1] - 1, b, blo, m[2] - 1)
                  + MatchingSize(a, m[1] + m[3], ahi, b, m[2] + m[3], bhi)

\* SequenceMatcher(None, a, b).ratio() = 2 * matches / (len(a) + len(b))
SequenceRatio(a, b) ==
    IF Len(a) + Len(b) = 0 THEN Rat(1, 1)
    ELSE Rat(2 * MatchingSize(a, 1, Len(a), b, 1, Len(b)), Len(a) + Len(b))

string_similarity(s1, s2) ==
    IF ~Truthy(s1) \/ ~Truthy(s2) THEN Rat(0, 1)
    ELSE LET n1 == normalize_text(s1)
             n2 == normalize_text(s2)
             words1 == get_words(s1)
             words2 == get_words(s2)
         IN  IF n1 = <<>> \/ n2 = <<>> THEN Rat(0, 1)
             ELSE IF n1 = n2 THEN Rat(1, 1)
             ELSE IF Contains(n1, n2) \/ Contains(n2, n1) THEN Rat(85, 100)
             ELSE IF words1 # {} /\ words2 # {} /\ words1 \cap words2 # {}
             THEN RMax(Rat(7, 10),
                       Rat(Cardinality(words1 \cap words2), Cardinality(words1 \cup words2)))
             ELSE SequenceRatio(n1, n2)

-----------------------------------------------------------------------------
(* The rules compare_rule is applied to.                                   *)

\* a list-valued dict entry: a list, None, or an absent key
List(l) == [t |-> "list", l |-> l]
NoneList == [t |-> "none", l |-> <<>>]
MissingList == [t |-> "missing", l |-> <<>>]

S_max_ltv == <<"m","a","x","_","l","t","v">>
S_loan_to_value_ratio == <<"l","o","a","n","_","t","o","_","v","a","l","u","e","_","r","a","t","i","o">>
S_loan_ltv_limit == <<"l","o","a","n","_","l","t","v","_","l","i","m","i","t">>
S_dti == <<"d","t","i">>
S_credit_score == <<"c","r","e","d","i","t","_","s","c","o","r","e">>
S_LTE == <<"L","T","E">>
S_GTE == <<"G","T","E">>

Rule(id, ts) == [rule_id |-> id, thresholds |-> List(ts)]

\* regulatory rules: no thresholds, one, two, one with an empty parameter
RegRuleInputs ==
    { Rule("R0", <<>>),
      Rule("R1", << Threshold(Str(S_ltv_ratio), Str(S_LTE), Num(80)) >>),
      Rule("R2", << Threshold(Str(S_ltv_ratio), Str(S_LTE), Num(80)),
                    Threshold(Str(S_credit_score), Str(S_GTE), Num(700)) >>),
      Rule("R3", << Threshold(Str(<<>>), Str(S_LTE), Num(80)) >>) }

\* source rules, the last with "thresholds": null; the names score 1.0 (equal), 1.0 (same words), 0.85 (one
\* contains the other), 0.7 (a shared word), and (by SequenceMatcher) 2/3,
\* 4/11 and 4/19 against ltv_ratio
SourceRuleInputs ==
    { Rule("S1", << Threshold(Str(S_ltv_ratio), Str(S_LTE), Num(75)) >>),
      Rule("S2", << Threshold(Str(S_max_ltv), Str(S_LTE), Num(85)) >>),
      Rule("S3", << Threshold(Str(S_LTV), Str(S_GTE), Num(75)),
                    Threshold(Str(<<>>), Str(S_LTE), Num(1)) >>),
      Rule("S4", << Threshold(Str(S_loan_to_value_ratio), Str(S_LTE), Num(70)) >>),
      Rule("S5", << Threshold(Str(S_credit_score), Str(S_GTE), Num(650)),
                    Threshold(Str(S_dti), Str(S_LTE), Num(43)) >>),
      Rule("S6", <<>>),
      Rule("S7", << Threshold(Str(S_loan_ltv_limit), NoneStr, NoneVal) >>),
      [rule_id |-> "S8", thresholds |-> NoneList] }

\* the parameter names of these rules, and string_similarity tabulated
\* over them
ThresholdsOf(rules) ==
    UNION { { r.thresholds.l[k] : k \in 1..Len(r.thresholds.l) } : r \in rules }
ParameterInputs ==
    { t.parameter : t \in ThresholdsOf(RegRuleInputs \cup SourceRuleInputs) }
similarity_table ==
    { <<p[1], p[2], string_similarity(p[1], p[2])>> :
        p \in ParameterInputs \X ParameterInputs }
Similarity(s1, s2) ==
    (CHOOSE e \in similarity_table : e[1] = s1 /\ e[2] = s2)[3]

-----------------------------------------------------------------------------
(* Best-match selection and rule comparison (src/src2/s4_final.py).        *)

\* what llm_parameters_match returns for what the model answered: "yes" and
\* "no" are the ANSWER line of the response, "raise" a failed call
\* llm_parameters_match taking a failed call for a confirmation
llm_parameters_match_uncaught(response) ==
    IF response = "no"
    THEN [is_match |-> FALSE, confidence |-> Rat(1, 10), reason |-> "reason"]
    ELSE [is_match |-> TRUE, confidence |-> Rat(9, 10), reason |-> "reason"]

llm_parameters_match(response) ==
    IF response = "raise"
    THEN [is_match |-> FALSE, confidence |-> Rat(0, 1), reason |-> "LLM error"]
    ELSE IF response = "yes"
    THEN [is_match |-> TRUE, confidence |-> Rat(9, 10), reason |-> "reason"]
    ELSE [is_match |-> FALSE, confidence |-> Rat(1, 10), reason |-> "reason"]

OracleResponses == {"yes", "no", "raise"}

\* candidate_outcome asking the oracle about every candidate below 0.7
candidate_outcome_no_floor(reg_t, cmp_t, llm_enabled, response) ==
    LET reg_param == Get(reg_t.parameter, Str(<<>>))
        reg_op    == Get(reg_t.operator, Str(<<>>))
        cmp_param == Get(cmp_t.parameter, Str(<<>>))
        cmp_op    == Get(cmp_t.operator, Str(<<>>))
        str_score == Similarity(reg_param, cmp_param)
        op_bonus  == IF operators_compatible(reg_op, cmp_op) THEN Rat(1, 10) ELSE Rat(0, 1)
        llm       == llm_parameters_match(response)
    IN  IF ~Truthy(cmp_param)
        THEN [queried |-> FALSE, accepted |-> FALSE, score |-> Rat(0, 1), reason |-> ""]
        ELSE IF RLe(Rat(7, 10), str_score)
        THEN [queried |-> FALSE, accepted |-> TRUE,
              score |-> RAdd(str_score, op_bonus), reason |-> ""]
        ELSE IF llm_enabled
        THEN [queried |-> TRUE, accepted |-> llm.is_match,
              score |-> IF llm.is_match
                        THEN RAdd(RHalf(RAdd(str_score, llm.confidence)), op_bonus)
                        ELSE Rat(0, 1),
              reason |-> IF llm.is_match THEN llm.reason ELSE ""]
        ELSE [queried |-> FALSE, accepted |-> FALSE, score |-> Rat(0, 1), reason |-> ""]

\* lines 260-288 for one candidate, without the update of the running best:
\* whether the oracle is queried, whether the candidate is accepted, and at
\* what score.  response is the oracle's answer, read only when queried
candidate_outcome(reg_t, cmp_t, llm_enabled, response) ==
    LET reg_param == Get(reg_t.parameter, Str(<<>>))
        reg_op    == Get(reg_t.operator, Str(<<>>))
        cmp_param == Get(cmp_t.parameter, Str(<<>>))
        cmp_op    == Get(cmp_t.operator, Str(<<>>))
        str_score == Similarity(reg_param, cmp_param)
        op_bonus  == IF operators_compatible(reg_op, cmp_op) THEN Rat(1, 10) ELSE Rat(0, 1)
        llm       == llm_parameters_match(response)
    IN  IF ~Truthy(cmp_param)
        THEN [queried |-> FALSE, accepted |-> FALSE, score |-> Rat(0, 1), reason |-> ""]
        ELSE IF RLe(Rat(7, 10), str_score)
        THEN [queried |-> FALSE, accepted |-> TRUE,
              score |-> RAdd(str_score, op_bonus), reason |-> ""]
        ELSE IF RLe(Rat(3, 10), str_score) /\ llm_enabled
        THEN [queried |-> TRUE, accepted |-> llm.is_match,
              score |-> IF llm.is_match
                        THEN RAdd(RHalf(RAdd(str_score, llm.confidence)), op_bonus)
                        ELSE Rat(0, 1),
              reason |-> IF llm.is_match THEN llm.reason ELSE ""]
        ELSE [queried |-> FALSE, accepted |-> FALSE, score |-> Rat(0, 1), reason |-> ""]

\* replaces_best letting a later candidate of equal score win
replaces_best_on_tie(score, best) == RLe(best, score)

\* lines 276 and 285: an accepted candidate replaces the running best
replaces_best(score, best) == RLt(best, score)

\* match_result with the floor raised above the scores of accepted candidates
match_result_high_floor(best, score) ==
    IF best # 0 /\ RLe(Rat(12, 10), score)
    THEN [matched |-> best, confidence |-> score]
    ELSE [matched |-> 0, confidence |-> Rat(0, 1)]

\* lines 290-293: what find_best_match returns; matched = 0 is None
match_result(best, score) ==
    IF best # 0 /\ RLe(Rat(4, 10), score)
    THEN [matched |-> best, confidence |-> score]
    ELSE [matched |-> 0, confidence |-> Rat(0, 1)]

NoMatchResult == [matched |-> 0, confidence |-> Rat(0, 1)]

\* rule_verdict counting an unmatched regulatory threshold as a pass
rule_verdict_lenient(reg_t, result, pool) ==
    IF result.matched = 0
    THEN [verdict |-> "ok", source_id |-> "",
          msg |-> "NO MATCHING RULE FOUND - cannot verify compliance"]
    ELSE LET matched_t == pool[result.matched]
             cmp == compare_thresholds(reg_t, matched_t)
         IN  [verdict |-> IF cmp.ok THEN "ok" ELSE "fail",
              source_id |-> matched_t.source_id, msg |-> cmp.msg]

\* lines 326-347: the explanation compare_rule records for one regulatory
\* threshold, given what find_best_match returned
rule_verdict(reg_t, result, pool) ==
    IF result.matched = 0
    THEN [verdict |-> "no_match", source_id |-> "",
          msg |-> "NO MATCHING RULE FOUND - cannot verify compliance"]
    ELSE LET matched_t == pool[result.matched]
             cmp == compare_thresholds(reg_t, matched_t)
         IN  [verdict |-> IF cmp.ok THEN "ok" ELSE "fail",
              source_id |-> matched_t.source_id, msg |-> cmp.msg]

\* lines 311-316: the copies of the thresholds of the source rules, each
\* tagged with the id of its rule
PoolEntry(t, id) ==
    [parameter |-> t.parameter, operator |-> t.operator,
     value_numeric |-> t.value_numeric, source_id |-> id, llm_reason |-> ""]
RECURSIVE PoolOf(_)
PoolOf(rules) ==
    IF rules = <<>> THEN <<>>
    ELSE LET rule == Head(rules)
             ts == Get(rule.thresholds, List(<<>>)).l
         IN  [k \in 1..Len(ts) |-> PoolEntry(ts[k], rule.rule_id)] \o PoolOf(Tail(rules))

\* a source rule whose thresholds entry is None cannot be iterated
PoolRaises(rules) ==
    \E k \in 1..Len(rules) : rules[k].thresholds.t = "none"

reg_thresholds == Get(reg_rule.thresholds, List(<<>>)).l

\* lines 305-323: no thresholds, the pool, an empty pool
CompareRuleStart ==
    /\ UNCHANGED cr_frame
    /\ cr_pc = "start"
    /\ IF reg_thresholds = <<>>
       THEN /\ cr_result' = [status |-> "N/A", explanation |-> "No thresholds to compare"]
            /\ cr_pc' = "done"
            /\ UNCHANGED <<all_source_thresholds, reg_index>>
       ELSE IF PoolRaises(source_rules)
       THEN /\ cr_pc' = "raised"
            /\ UNCHANGED <<cr_result, all_source_thresholds, reg_index>>
       ELSE IF PoolOf(source_rules) = <<>>
       THEN /\ cr_result' = [status |-> "No", explanation |-> "No rules with thresholds"]
            /\ cr_pc' = "done"
            /\ UNCHANGED <<all_source_thresholds, reg_index>>
       ELSE /\ all_source_thresholds' = PoolOf(source_rules)
            /\ reg_index' = 1
            /\ cr_pc' = "loop"
            /\ UNCHANGED cr_result
    /\ UNCHANGED <<use_llm, reg_rule, source_rules, cmp_index, best_match,
                   best_score, all_compliant, explanations, scan_log, match_results>>

\* lines 331-347, then the next regulatory threshold
RecordMatch(result) ==
    LET e == rule_verdict(reg_thresholds[reg_index], result, all_source_thresholds)
    IN  /\ match_results' = Append(match_results, result)
        /\ explanations' = Append(explanations, e)
        /\ all_compliant' = (all_compliant /\ e.verdict = "ok")
        /\ reg_index' = reg_index + 1
        /\ cr_pc' = "loop"

\* lines 325-329 and 250-257: the next regulatory threshold enters
\* find_best_match, which returns None at once for an empty parameter
FindBestMatchEnter ==
    /\ UNCHANGED cr_frame
    /\ cr_pc = "loop"
    /\ reg_index <= Len(reg_thresholds)
    /\ IF ~Truthy(Get(reg_thresholds[reg_index].parameter, Str(<<>>)))
       THEN /\ RecordMatch(NoMatchResult)
            /\ UNCHANGED <<cmp_index, best_match, best_score>>
       ELSE /\ best_match' = 0
            /\ best_score' = Rat(0, 1)
            /\ cmp_index' = 1
            /\ cr_pc' = "scan"
            /\ UNCHANGED <<reg_index, all_compliant, explanations, match_results>>
    /\ UNCHANGED <<use_llm, reg_rule, source_rules, all_source_thresholds,
                   cr_result, scan_log>>

\* lines 259-288: one candidate of the pool; the oracle's answer is an input
ScanCandidate ==
    /\ UNCHANGED cr_frame
    /\ cr_pc = "scan"
    /\ cmp_index <= Len(all_source_thresholds)
    /\ \E response \in OracleResponses :
         LET reg_t == reg_thresholds[reg_index]
             cmp_t == all_source_thresholds[cmp_index]
             out == candidate_outcome(reg_t, cmp_t, use_llm, response)
             better == out.accepted /\ replaces_best(out.score, best_score)
         IN  /\ (~out.queried => response = "no")
             /\ best_match' = IF better THEN cmp_index ELSE best_match
             /\ best_score' = IF better THEN out.score ELSE best_score
             /\ all_source_thresholds' =
                  IF better /\ out.queried
                  THEN [all_source_thresholds EXCEPT ![cmp_index].llm_reason = out.reason]
                  ELSE all_source_thresholds
             /\ scan_log' = Append(scan_log,
                  [reg |-> reg_index, cmp |-> cmp_index, queried |-> out.queried,
                   response |-> IF out.queried THEN response ELSE "",
                   accepted |-> out.accepted, score |-> out.score])
    /\ cmp_index' = cmp_index + 1
    /\ UNCHANGED <<cr_pc, use_llm, reg_rule, source_rules, reg_index,
                   all_compliant, explanations, cr_result, match_results>>

\* lines 290-293, then lines 331-347 of compare_rule
FindBestMatchReturn ==
    /\ UNCHANGED cr_frame
    /\ cr_pc = "scan"
    /\ cmp_index > Len(all_source_thresholds)
    /\ RecordMatch(match_result(best_match, best_score))
    /\ UNCHANGED <<use_llm, reg_rule, source_rules, all_source_thresholds,
                   cmp_index, best_match, best_score, cr_result, scan_log>>

\* lines 349-350
CompareRuleReturn ==
    /\ UNCHANGED cr_frame
    /\ cr_pc = "loop"
    /\ reg_index > Len(reg_thresholds)
    /\ cr_result' = [status |-> IF all_compliant THEN "Yes" ELSE "No",
                     explanation |-> "explanations"]
    /\ cr_pc' = "done"
    /\ UNCHANGED <<use_llm, reg_rule, source_rules, all_source_thresholds,
                   reg_index, cmp_index, best_match, best_score, all_compliant,
                   explanations, scan_log, match_results>>

-----------------------------------------------------------------------------
(* compare_rule applied to one regulatory rule and a list of source rules. *)

\* lists of at most n distinct source rules
SourceRuleLists(n) ==
    UNION { { l \in [1..k -> SourceRuleInputs] :
                \A a, b \in 1..k : l[a] = l[b] => a = b } : k \in 0..n }

NoCompareResult == [status |-> "", explanation |-> ""]

cr_Idle ==
    /\ cr_pc = "idle"
    /\ use_llm = FALSE
    /\ reg_rule = Rule("", <<>>)
    /\ source_rules = <<>>
    /\ all_source_thresholds = <<>>
    /\ reg_index = 0
    /\ cmp_index = 0
    /\ best_match = 0
    /\ best_score = Rat(0, 1)
    /\ all_compliant = TRUE
    /\ explanations = <<>>
    /\ cr_result = NoCompareResult
    /\ scan_log = <<>>
    /\ match_results = <<>>

cr_Init ==
    /\ cr_pc = "start"
    /\ use_llm \in BOOLEAN
    /\ reg_rule \in RegRuleInputs
    /\ source_rules \in SourceRuleLists(MaxSourceRules)
    /\ all_source_thresholds = <<>>
    /\ reg_index = 0
    /\ cmp_index = 0
    /\ best_match = 0
    /\ best_score = Rat(0, 1)
    /\ all_compliant = TRUE
    /\ explanations = <<>>
    /\ cr_result = NoCompareResult
    /\ scan_log = <<>>
    /\ match_results = <<>>

-----------------------------------------------------------------------------
(* find_best_match and compare_rule as functions of their arguments and of *)
(* a deterministic oracle.                                                 *)

\* deterministic oracles: one answer for every pair, or yes exactly for
\* the candidate name loan_to_value_ratio
OracleInputs == {"yes", "no", "raise", "by_name"}
oracle_answer(oracle, param1, param2) ==
    IF oracle = "by_name"
    THEN IF param2 = Str(S_loan_to_value_ratio) THEN "yes" ELSE "no"
    ELSE oracle

outcome_of(reg_t, cmp_t, llm_enabled, oracle) ==
    candidate_outcome(reg_t, cmp_t, llm_enabled,
        oracle_answer(oracle, Get(reg_t.parameter, Str(<<>>)),
                              Get(cmp_t.parameter, Str(<<>>))))

\* lines 241-293: the first accepted candidate of greatest score
find_best_match(reg_t, candidate_thresholds, llm_enabled, oracle) ==
    LET out(c) == outcome_of(reg_t, candidate_thresholds[c], llm_enabled, oracle)
        accepted == { c \in 1..Len(candidate_thresholds) : out(c).accepted }
        best == CHOOSE c \in accepted : \A d \in accepted :
                    \/ RLt(out(d).score, out(c).score)
                    \/ out(d).score = out(c).score /\ c <= d
    IN  IF ~Truthy(Get(reg_t.parameter, Str(<<>>))) \/ accepted = {}
        THEN NoMatchResult
        ELSE match_result(best, out(best).score)

\* lines 299-350
compare_rule(rule, rules, llm_enabled, oracle) ==
    LET ts == Get(rule.thresholds, List(<<>>)).l
        pool == PoolOf(rules)
        verdicts == [k \in 1..Len(ts) |->
                        rule_verdict(ts[k], find_best_match(ts[k], pool, llm_enabled, oracle), pool)]
    IN  IF ts = <<>>
        THEN [status |-> "N/A", explanation |-> <<>>]
        ELSE IF pool = <<>>
        THEN [status |-> "No", explanation |-> <<>>]
        ELSE [status |-> IF \A k \in 1..Len(ts) : verdicts[k].verdict = "ok"
                         THEN "Yes" ELSE "No",
              explanation |-> verdicts]

-----------------------------------------------------------------------------
(* Evaluations of several regulations over the same source rules, their    *)
(* steps interleaved.  Each evaluation is a call of compare_rule with its  *)
(* own local variables; the source rules are shared.                       *)

Evaluations == {"first", "second"}

NoEval ==
    [pc |-> "idle", reg_rule |-> Rule("", <<>>), pool |-> <<>>, reg_index |-> 0,
     cmp_index |-> 0, best_match |-> 0, best_score |-> Rat(0, 1),
     all_compliant |-> TRUE, explanations |-> <<>>,
     result |-> [status |-> "", explanation |-> <<>>]]

thresholds_of(e) == Get(e.reg_rule.thresholds, List(<<>>)).l

\* the source threshold behind a position of the pool gains the key
\* _llm_reason
RECURSIVE MarkSource(_, _, _)
MarkSource(rules, idx, reason) ==
    IF rules = <<>> THEN <<>>
    ELSE LET ts == Get(Head(rules).thresholds, List(<<>>)).l
         IN  IF idx <= Len(ts)
             THEN << [Head(rules) EXCEPT !.thresholds.l[idx] =
                        [parameter |-> ts[idx].parameter, operator |-> ts[idx].operator,
                         value_numeric |-> ts[idx].value_numeric, llm_reason |-> reason]] >>
                  \o Tail(rules)
             ELSE << Head(rules) >> \o MarkSource(Tail(rules), idx - Len(ts), reason)

\* write_llm_reason on a pool that holds the source thresholds themselves
write_llm_reason_to_source(rules, pool, idx, reason) ==
    [shared |-> MarkSource(rules, idx, reason), pool |-> pool]

\* line 287 after line 314: the pool holds copies (t.copy()), so the write
\* lands on the copy and the source rules stay as they are
write_llm_reason(rules, pool, idx, reason) ==
    [shared |-> rules, pool |-> [pool EXCEPT ![idx].llm_reason = reason]]

\* lines 305-323
start_step(e, rules) ==
    IF thresholds_of(e) = <<>>
    THEN [e EXCEPT !.pc = "done", !.result = [status |-> "N/A", explanation |-> <<>>]]
    ELSE IF PoolRaises(rules)
    THEN [e EXCEPT !.pc = "raised"]
    ELSE IF PoolOf(rules) = <<>>
    THEN [e EXCEPT !.pc = "done", !.result = [status |-> "No", explanation |-> <<>>]]
    ELSE [e EXCEPT !.pc = "loop", !.pool = PoolOf(rules), !.reg_index = 1]

\* lines 331-347, then the next regulatory threshold
record_step(e, result) ==
    LET v == rule_verdict(thresholds_of(e)[e.reg_index], result, e.pool)
    IN  [e EXCEPT !.explanations = Append(@, v),
                  !.all_compliant = (@ /\ v.verdict = "ok"),
                  !.reg_index = @ + 1,
                  !.pc = "loop"]

\* lines 325-329 and 250-257
enter_step(e) ==
    IF ~Truthy(Get(thresholds_of(e)[e.reg_index].parameter, Str(<<>>)))
    THEN record_step(e, NoMatchResult)
    ELSE [e EXCEPT !.pc = "scan", !.cmp_index = 1, !.best_match = 0,
                   !.best_score = Rat(0, 1)]

\* lines 349-350
return_step(e) ==
    [e EXCEPT !.pc = "done",
              !.result = [status |-> IF e.all_compliant THEN "Yes" ELSE "No",
                          explanation |-> e.explanations]]

EvalStart(p) ==
    /\ UNCHANGED pe_frame
    /\ evals[p].pc = "start"
    /\ evals' = [evals EXCEPT ![p] = start_step(@, shared_rules)]
    /\ UNCHANGED <<shared_rules, pe_llm, pe_oracle>>

EvalEnter(p) ==
    /\ UNCHANGED pe_frame
    /\ evals[p].pc = "loop"
    /\ evals[p].reg_index <= Len(thresholds_of(evals[p]))
    /\ evals' = [evals EXCEPT ![p] = enter_step(@)]
    /\ UNCHANGED <<shared_rules, pe_llm, pe_oracle>>

\* lines 259-288: one candidate of the pool
EvalScan(p) ==
    /\ UNCHANGED pe_frame
    /\ evals[p].pc = "scan"
    /\ evals[p].cmp_index <= Len(evals[p].pool)
    /\ LET e == evals[p]
           out == outcome_of(thresholds_of(e)[e.reg_index], e.pool[e.cmp_index],
                             pe_llm, pe_oracle)
           better == out.accepted /\ replaces_best(out.score, e.best_score)
           written == IF better /\ out.queried
                      THEN write_llm_reason(shared_rules, e.pool, e.cmp_index, out.reason)
                      ELSE [shared |-> shared_rules, pool |-> e.pool]
       IN  /\ evals' = [evals EXCEPT ![p] =
                  [e EXCEPT !.best_match = IF better THEN e.cmp_index ELSE @,
                            !.best_score = IF better THEN out.score ELSE @,
                            !.pool = written.pool,
                            !.cmp_index = @ + 1]]
           /\ shared_rules' = written.shared
    /\ UNCHANGED <<pe_llm, pe_oracle>>

\* lines 290-293, then lines 331-347 of compare_rule
EvalMatchReturn(p) ==
    /\ UNCHANGED pe_frame
    /\ evals[p].pc = "scan"
    /\ evals[p].cmp_index > Len(evals[p].pool)
    /\ evals' = [evals EXCEPT ![p] =
                    record_step(@, match_result(@.best_match, @.best_score))]
    /\ UNCHANGED <<shared_rules, pe_llm, pe_oracle>>

EvalReturn(p) ==
    /\ UNCHANGED pe_frame
    /\ evals[p].pc = "loop"
    /\ evals[p].reg_index > Len(thresholds_of(evals[p]))
    /\ evals' = [evals EXCEPT ![p] = return_step(@)]
    /\ UNCHANGED <<shared_rules, pe_llm, pe_oracle>>

\* the source rules the evaluations share
SharedRuleInputs ==
    { <<>>, << Rule("S6", <<>>) >> }
    \cup { l \in SourceRuleLists(MaxSourceRules) :
             Len(l) = 2 /\ l[1].rule_id \in {"S1", "S4"} /\ l[2].rule_id \in {"S2", "S5"} }
    \cup { l \in SourceRuleLists(MaxSourceRules) :
             Len(l) = 2 /\ l[1].rule_id = "S2" /\ l[2].rule_id = "S1" }

pe_Idle ==
    /\ shared_rules = <<>>
    /\ pe_llm = FALSE
    /\ pe_oracle = "no"
    /\ evals = [p \in Evaluations |-> NoEval]

pe_Init ==
    /\ shared_rules \in SharedRuleInputs
    /\ pe_llm \in BOOLEAN
    /\ pe_oracle \in OracleInputs
    /\ \E regs \in [Evaluations -> RegRuleInputs] :
         evals = [p \in Evaluations |-> [NoEval EXCEPT !.pc = "start", !.reg_rule = regs[p]]]

-----------------------------------------------------------------------------
(* Structured rules (src/src/extraction/schema.py) and the compliance      *)
(* evaluator (src/src/compliance/engine.py).                               *)

S_LTE_SYM == <<"<","=">>
S_INCOME_VERIFICATION == <<"I","N","C","O","M","E","_","V","E","R","I","F","I","C","A","T","I","O","N">>
S_REQUIRED == <<"R","E","Q","U","I","R","E","D">>
S_OPTIONAL == <<"O","P","T","I","O","N","A","L">>
S_REQUIRES_APPROVAL == <<"R","E","Q","U","I","R","E","S","_","A","P","P","R","O","V","A","L">>
S_TRUE == <<"T","R","U","E">>

ExtractedRule(doc_type, rule_type, metric, operator, value) ==
    [doc_type |-> doc_type, rule_type |-> rule_type, metric |-> metric,
     operator |-> operator, value |-> value]

\* the values of the FindingType enumeration
FindingType ==
    {"COMPLIANT", "MISSING_POLICY", "MISSING_SYSTEM", "SYSTEM_TOO_LENIENT",
     "CONTROL_WEAKENED"}

\* str.replace(old, "") for a one-character old
Remove(s, old) == SelectSeq(s, LAMBDA c : c # old)

DigitValue(c) ==
    CASE c = "0" -> 0 [] c = "1" -> 1 [] c = "2" -> 2 [] c = "3" -> 3
      [] c = "4" -> 4 [] c = "5" -> 5 [] c = "6" -> 6 [] c = "7" -> 7
      [] c = "8" -> 8 [] c = "9" -> 9

RECURSIVE DigitsValue(_)
DigitsValue(s) ==
    IF s = <<>> THEN 0
    ELSE 10 * DigitsValue(SubSeq(s, 1, Len(s) - 1)) + DigitValue(s[Len(s)])

\* the longest digit string int() converts (sys.int_info.default_max_str_digits)
int_max_str_digits == 4300

\* int(s): surrounding whitespace and one sign are accepted, then decimal
\* digits, no more than int_max_str_digits of them; anything else raises
\* ValueError
IntBody(s) ==
    LET k == Strip(s)
    IN  IF k # <<>> /\ k[1] \in {"+", "-"} THEN Tail(k) ELSE k
IntParses(s) ==
    /\ IntBody(s) # <<>>
    /\ Len(IntBody(s)) <= int_max_str_digits
    /\ \A i \in 1..Len(IntBody(s)) : IntBody(s)[i] \in Digits
IntValue(s) ==
    LET k == Strip(s)
    IN  IF k[1] = "-" THEN 0 - DigitsValue(IntBody(s)) ELSE DigitsValue(IntBody(s))

NoRule == ExtractedRule("", "", NoneStr, NoneStr, NoneStr)
NoMatch == [t |-> "none", rule |-> NoRule, score |-> 0]
Match(rule, score) == [t |-> "match", rule |-> rule, score |-> score]

\* limit_findings flagging a system value equal to the regulatory bound
limit_findings_or_equal(reg, has_sys, sys) ==
    IF reg.rule_type = "LIMIT"
    THEN IF ~has_sys
         THEN <<"MISSING_SYSTEM">>
         ELSE IF sys.rule_type # "LIMIT"
         THEN <<"SYSTEM_TOO_LENIENT">>
         ELSE IF Truthy(reg.value) /\ Truthy(sys.value)
         THEN IF ~IntParses(Remove(reg.value.s, "%"))
                 \/ ~IntParses(Remove(sys.value.s, "%"))
              THEN <<"raise">>
              ELSE IF IntValue(Remove(sys.value.s, "%"))
                        >= IntValue(Remove(reg.value.s, "%"))
              THEN <<"SYSTEM_TOO_LENIENT">>
              ELSE <<>>
         ELSE <<>>
    ELSE <<>>

\* lines 21-35: the numeric limit checks; "raise" when int() rejects a value
limit_findings(reg, has_sys, sys) ==
    IF reg.rule_type = "LIMIT"
    THEN IF ~has_sys
         THEN <<"MISSING_SYSTEM">>
         ELSE IF sys.rule_type # "LIMIT"
         THEN <<"SYSTEM_TOO_LENIENT">>
         ELSE IF Truthy(reg.value) /\ Truthy(sys.value)
         THEN IF ~IntParses(Remove(reg.value.s, "%"))
                 \/ ~IntParses(Remove(sys.value.s, "%"))
              THEN <<"raise">>
              ELSE IF IntValue(Remove(sys.value.s, "%"))
                        > IntValue(Remove(reg.value.s, "%"))
              THEN <<"SYSTEM_TOO_LENIENT">>
              ELSE <<>>
         ELSE <<>>
    ELSE <<>>

\* control_findings without the test of the regulation's operator
control_findings_any_operator(reg, has_sys, sys) ==
    IF reg.rule_type = "REQUIREMENT"
    THEN IF has_sys
         THEN IF sys.operator = Str(S_OPTIONAL)
              THEN <<"CONTROL_WEAKENED">>
              ELSE <<>>
         ELSE <<>>
    ELSE <<>>

\* control_findings taking an absent system rule for a weakened control
control_findings_absent_system(reg, has_sys, sys) ==
    IF reg.rule_type = "REQUIREMENT"
    THEN IF reg.operator = Str(S_REQUIRED)
         THEN IF ~has_sys \/ sys.operator = Str(S_OPTIONAL)
              THEN <<"CONTROL_WEAKENED">>
              ELSE <<>>
         ELSE <<>>
    ELSE <<>>

\* lines 38-42: the control strength checks
control_findings(reg, has_sys, sys) ==
    IF reg.rule_type = "REQUIREMENT"
    THEN IF has_sys /\ reg.operator = Str(S_REQUIRED)
         THEN IF sys.operator = Str(S_OPTIONAL)
              THEN <<"CONTROL_WEAKENED">>
              ELSE <<>>
         ELSE <<>>
    ELSE <<>>

\* missing_findings with the system check chained to the policy check
missing_findings_elif(has_pol, has_sys) ==
    IF ~has_pol THEN <<"MISSING_POLICY">>
    ELSE IF ~has_sys THEN <<"MISSING_SYSTEM">> ELSE <<>>

\* lines 14-19: missing enforcement
missing_findings(has_pol, has_sys) ==
    (IF ~has_pol THEN <<"MISSING_POLICY">> ELSE <<>>)
        \o (IF ~has_sys THEN <<"MISSING_SYSTEM">> ELSE <<>>)

\* evaluate_trace adding COMPLIANT whatever was found before
evaluate_trace_always_compliant(tr) ==
    LET reg == tr.regulation
        has_pol == tr.policy.t = "match"
        has_sys == tr.system.t = "match"
        sys == tr.system.rule
        limit == limit_findings(reg, has_sys, sys)
        found == missing_findings(has_pol, has_sys) \o limit
                    \o control_findings(reg, has_sys, sys)
    IN  IF limit = <<"raise">>
        THEN [raised |-> TRUE, findings |-> <<>>]
        ELSE [raised |-> FALSE, findings |-> found \o <<"COMPLIANT">>]

evaluate_trace(tr) ==
    LET reg == tr.regulation
        has_pol == tr.policy.t = "match"
        has_sys == tr.system.t = "match"
        sys == tr.system.rule
        limit == limit_findings(reg, has_sys, sys)
        found == missing_findings(has_pol, has_sys) \o limit
                    \o control_findings(reg, has_sys, sys)
    IN  IF limit = <<"raise">>
        THEN [raised |-> TRUE, findings |-> <<>>]
        ELSE [raised |-> FALSE,
              findings |-> IF found = <<>> THEN <<"COMPLIANT">> ELSE found]

-----------------------------------------------------------------------------
(* evaluate_trace applied to one traceability link.                        *)

\* the percentages of the LIMIT rules
PercentValues == { <<"7","5","%">>, <<"8","0","%">>, <<"8","5","%">> }

\* the records extract_structured_rule returns (src/src/extraction/extractor.py)
ExtractedRules(doc_type) ==
    { ExtractedRule(doc_type, "LIMIT", Str(S_LTV), Str(S_LTE_SYM), Str(v)) :
        v \in PercentValues }
    \cup { ExtractedRule(doc_type, "REQUIREMENT", Str(S_INCOME_VERIFICATION), Str(op), NoneStr) :
        op \in {S_REQUIRED, S_OPTIONAL} }
    \cup { ExtractedRule(doc_type, "EXCEPTION", NoneStr, Str(S_REQUIRES_APPROVAL), Str(S_TRUE)) }

\* the links TraceabilityLinker.link returns (src/src/linking/linker.py)
TraceInputs ==
    [regulation : ExtractedRules("REGULATION"),
     policy : {NoMatch} \cup { Match(r, 1000) : r \in ExtractedRules("POLICY") },
     system : {NoMatch} \cup { Match(r, 1000) : r \in ExtractedRules("SYSTEM") }]

NoTrace == [regulation |-> NoRule, policy |-> NoMatch, system |-> NoMatch]
NoEvaluation == [raised |-> FALSE, findings |-> <<>>]

ev_Idle ==
    /\ ev_pc = "idle"
    /\ trace = NoTrace
    /\ ev_result = NoEvaluation

ev_Init ==
    /\ ev_pc = "call"
    /\ trace \in TraceInputs
    /\ ev_result = NoEvaluation

EvaluateTrace ==
    /\ ev_pc = "call"
    /\ ev_result' = evaluate_trace(trace)
    /\ ev_pc' = "done"
    /\ UNCHANGED trace

-----------------------------------------------------------------------------
(* The audit entry (src/src/reporting/formatter.py).                       *)

\* a findings list may hold up to MaxFindings values
MaxFindings == 2

Has(findings, f) == \E i \in 1..Len(findings) : findings[i] = f

\* lines 6-13: the if / elif / elif chain
severity(findings) ==
    IF Has(findings, "SYSTEM_TOO_LENIENT") THEN "HIGH"
    ELSE IF Has(findings, "CONTROL_WEAKENED") THEN "MEDIUM"
    ELSE IF Has(findings, "MISSING_SYSTEM") THEN "HIGH"
    ELSE "LOW"

format_audit_entry(result) ==
    [regulation |-> result.regulation_text,
     findings |-> result.findings,
     severity |-> severity(result.findings),
     evidence |-> result.evidence]

\* the dict evaluate_trace returns (engine.py lines 48-55); evidence texts
\* are None when the match is absent
FindingLists == UNION { [1..n -> FindingType] : n \in 0..MaxFindings }
EvidenceInputs == [policy : {"policy text", "None"}, system : {"system text", "None"}]
ResultInputs ==
    [regulation_text : {"regulation text"}, findings : FindingLists,
     evidence : EvidenceInputs]

NoAuditResult ==
    [regulation_text |-> "", findings |-> <<>>,
     evidence |-> [policy |-> "None", system |-> "None"]]
NoAuditEntry ==
    [regulation |-> "", findings |-> <<>>, severity |-> "",
     evidence |-> [policy |-> "None", system |-> "None"]]

fa_Idle ==
    /\ fa_pc = "idle"
    /\ fa_result = NoAuditResult
    /\ fa_entry = NoAuditEntry

fa_Init ==
    /\ fa_pc = "call"
    /\ fa_result \in ResultInputs
    /\ fa_entry = NoAuditEntry

FormatAuditEntry ==
    /\ fa_pc = "call"
    /\ fa_entry' = format_audit_entry(fa_result)
    /\ fa_pc' = "done"
    /\ UNCHANGED fa_result

-----------------------------------------------------------------------------
(* Traceability links (src/src/linking/linker.py).  Scores are integers in *)
(* units of 0.0001; the score recorded in a link is in units of 0.001.     *)

\* at most MaxCandidates policy rules and as many system rules
MaxCandidates == 2

similarity_threshold == 6000
system_threshold == 4500
metric_boost == 2500
score_cap == 10000

\* round(x, 3): to the nearest 0.001, a tie to the even neighbour
Round3(x) ==
    LET q == x \div 10
        r == x % 10
    IN  IF r < 5 THEN q
        ELSE IF r > 5 THEN q + 1
        ELSE IF q % 2 = 0 THEN q ELSE q + 1

Min(a, b) == IF a < b THEN a ELSE b

\* lines 15-17: the rules of one document class, in input order
RulesOf(rules, doc_type) == SelectSeq(rules, LAMBDA r : r.doc_type = doc_type)

\* lines 38-42: similarity plus the metric boost
candidate_score(source, c, sim) ==
    IF Truthy(source.metric) /\ source.metric = c.metric
    THEN sim + metric_boost ELSE sim

\* lines 45-48: the threshold a candidate has to clear
candidate_threshold(source, c) ==
    IF source.doc_type = "REGULATION" /\ c.doc_type = "SYSTEM"
    THEN system_threshold ELSE similarity_threshold

\* takes_over without the test against the threshold
takes_over_any_score(score, best, threshold) == score > best

\* line 50: the candidate becomes the best
takes_over(score, best, threshold) ==
    score > best /\ score >= threshold

NoBest == [idx |-> 0, match |-> NoMatch]

\* what EmbeddingEngine.similarity may return for a pair of texts
SimilarityInputs == {2000, 3500, 8004, 9000}

lk_candidates == RulesOf(lk_rules, lk_class)
lk_regs == RulesOf(lk_rules, "REGULATION")

\* lines 10-22: link starts with the first regulation and the policy rules
LinkStart ==
    /\ UNCHANGED lk_frame
    /\ lk_pc = "start"
    /\ lk_reg' = 1
    /\ lk_class' = "POLICY"
    /\ lk_cand' = 1
    /\ lk_best' = NoBest
    /\ lk_best_score' = 0
    /\ lk_scores' = <<>>
    /\ lk_pc' = "scan"
    /\ UNCHANGED <<lk_rules, lk_best_pol, links>>

\* lines 37-52: one candidate; the similarity is an input, or the
\* collaborator raises and nothing catches the exception
BestMatchScan ==
    /\ UNCHANGED lk_frame
    /\ lk_pc = "scan"
    /\ lk_reg <= Len(lk_regs)
    /\ lk_cand <= Len(lk_candidates)
    /\ \/ /\ lk_pc' = "raised"
          /\ UNCHANGED <<lk_cand, lk_best, lk_best_score, lk_scores>>
       \/ \E sim \in SimilarityInputs :
            LET source == lk_regs[lk_reg]
                c == lk_candidates[lk_cand]
                score == candidate_score(source, c, sim)
                better == takes_over(score, lk_best_score, candidate_threshold(source, c))
            IN  /\ lk_best' = IF better
                              THEN [idx |-> lk_cand,
                                    match |-> Match(c, Round3(Min(score, score_cap)))]
                              ELSE lk_best
                /\ lk_best_score' = IF better THEN score ELSE lk_best_score
                /\ lk_scores' = Append(lk_scores, score)
                /\ lk_cand' = lk_cand + 1
                /\ lk_pc' = "scan"
    /\ UNCHANGED <<lk_rules, lk_reg, lk_class, lk_best_pol, links>>

\* line 55, then lines 21-28: _best_match returns; after the system rules
\* the link of the regulation is appended
BestMatchReturn ==
    /\ UNCHANGED lk_frame
    /\ lk_pc = "scan"
    /\ lk_reg <= Len(lk_regs)
    /\ lk_cand > Len(lk_candidates)
    /\ IF lk_class = "POLICY"
       THEN /\ lk_best_pol' = lk_best.match
            /\ lk_class' = "SYSTEM"
            /\ UNCHANGED <<lk_reg, links>>
       ELSE /\ links' = Append(links, [regulation |-> lk_regs[lk_reg],
                                       policy |-> lk_best_pol,
                                       system |-> lk_best.match])
            /\ lk_reg' = lk_reg + 1
            /\ lk_class' = "POLICY"
            /\ lk_best_pol' = NoMatch
    /\ lk_cand' = 1
    /\ lk_best' = NoBest
    /\ lk_best_score' = 0
    /\ lk_scores' = <<>>
    /\ UNCHANGED <<lk_pc, lk_rules>>

\* line 31
LinkReturn ==
    /\ UNCHANGED lk_frame
    /\ lk_pc = "scan"
    /\ lk_reg > Len(lk_regs)
    /\ lk_pc' = "done"
    /\ UNCHANGED <<lk_rules, lk_reg, lk_class, lk_cand, lk_best, lk_best_score,
                   lk_best_pol, links, lk_scores>>

-----------------------------------------------------------------------------
(* link applied to the rules of three documents.                           *)

RegLimit == ExtractedRule("REGULATION", "LIMIT", Str(S_LTV), Str(S_LTE_SYM), Str(<<"8","0","%">>))
RegRequirement ==
    ExtractedRule("REGULATION", "REQUIREMENT", Str(S_INCOME_VERIFICATION), Str(S_REQUIRED), NoneStr)
RegException ==
    ExtractedRule("REGULATION", "EXCEPTION", NoneStr, Str(S_REQUIRES_APPROVAL), Str(S_TRUE))

CandidateRules(doc_type) ==
    { ExtractedRule(doc_type, "LIMIT", Str(S_LTV), Str(S_LTE_SYM), Str(<<"7","5","%">>)),
      ExtractedRule(doc_type, "LIMIT", Str(S_LTV), Str(S_LTE_SYM), Str(<<"8","5","%">>)),
      ExtractedRule(doc_type, "EXCEPTION", NoneStr, Str(S_REQUIRES_APPROVAL), Str(S_TRUE)) }

CandidateLists(doc_type, n) ==
    UNION { [1..k -> CandidateRules(doc_type)] : k \in 0..n }

\* one regulation with up to MaxCandidates rules of each class, or two
\* regulations with up to one rule of each class
LinkInputs ==
    { <<reg>> \o pols \o syss :
        reg \in {RegLimit, RegException},
        pols \in CandidateLists("POLICY", MaxCandidates),
        syss \in CandidateLists("SYSTEM", MaxCandidates) }
    \cup { syss \o <<RegLimit>> \o pols \o <<RegRequirement>> :
        pols \in CandidateLists("POLICY", 1),
        syss \in CandidateLists("SYSTEM", 1) }

lk_Idle ==
    /\ lk_pc = "idle"
    /\ lk_rules = <<>>
    /\ lk_reg = 0
    /\ lk_class = ""
    /\ lk_cand = 0
    /\ lk_best = NoBest
    /\ lk_best_score = 0
    /\ lk_best_pol = NoMatch
    /\ links = <<>>
    /\ lk_scores = <<>>

lk_Init ==
    /\ lk_pc = "start"
    /\ lk_rules \in LinkInputs
    /\ lk_reg = 0
    /\ lk_class = ""
    /\ lk_cand = 0
    /\ lk_best = NoBest
    /\ lk_best_score = 0
    /\ lk_best_pol = NoMatch
    /\ links = <<>>
    /\ lk_scores = <<>>

-----------------------------------------------------------------------------
(* string_similarity applied to two parameter names.                       *)

\* parameter names: without a letter or digit, in snake_case, in camelCase,
\* with a digit between two words, and the empty name
NameInputs ==
    { <<"_","_","_">>,
      <<"l","t","v","_","r","a","t","i","o">>,
      <<"L","T","V">>,
      <<"l","o","a","n","A","m","o","u","n","t">>,
      <<"a","m","o","u","n","t","_","l","o","a","n">>,
      <<"l","o","a","n","_","a","m","o","u","n","t">>,
      <<"m","a","x","L","o","a","n","A","m","o","u","n","t">>,
      <<"l","o","a","n","2","v","a","l","u","e">>,
      <<"d","t","i">>,
      <<>> }

NoScore == Rat(0, 1)

ss_Idle ==
    /\ ss_pc = "idle"
    /\ ss_s1 = NoneStr
    /\ ss_s2 = NoneStr
    /\ ss_result = NoScore

ss_Init ==
    /\ ss_pc = "call"
    /\ ss_s1 \in { Str(n) : n \in NameInputs } \cup {NoneStr}
    /\ ss_s2 \in { Str(n) : n \in NameInputs } \cup {NoneStr}
    /\ ss_result = NoScore

StringSimilarity ==
    /\ UNCHANGED ss_frame
    /\ ss_pc = "call"
    /\ ss_result' = string_similarity(ss_s1, ss_s2)
    /\ ss_pc' = "done"
    /\ UNCHANGED <<ss_s1, ss_s2>>

-----------------------------------------------------------------------------
(* operators_compatible and normalize_operator applied to two operators.   *)

\* the spellings of the three families in either case, two of them padded
\* with a blank, an operator of no family, the empty operator and None
OperatorSpellings ==
    { <<"L","T","E">>, <<"l","t">>, <<"<","=">>, <<"<">>,
      <<"G","T","E">>, <<"g","t">>, <<">","=">>, <<">">>,
      <<"E","Q","U","A","L","S">>, <<"e","q">>, <<"=">>, <<"=","=">>,
      <<" ","L","T","E">>, <<"g","t","e"," ">>, <<"a","p","p","r","o","x">>,
      <<>> }

NoVerdict == [compatible |-> FALSE, reversed |-> FALSE,
              canonical1 |-> <<>>, canonical2 |-> <<>>]

oc_Idle ==
    /\ oc_pc = "idle"
    /\ oc_op1 = NoneStr
    /\ oc_op2 = NoneStr
    /\ oc_result = NoVerdict

oc_Init ==
    /\ oc_pc = "call"
    /\ oc_op1 \in { Str(op) : op \in OperatorSpellings } \cup {NoneStr}
    /\ oc_op2 \in { Str(op) : op \in OperatorSpellings } \cup {NoneStr}
    /\ oc_result = NoVerdict

\* both operators are compared, in either order, and normalized
OperatorsCompatible ==
    /\ UNCHANGED oc_frame
    /\ oc_pc = "call"
    /\ oc_result' = [compatible |-> operators_compatible(oc_op1, oc_op2),
                     reversed   |-> operators_compatible(oc_op2, oc_op1),
                     canonical1 |-> normalize_operator(oc_op1),
                     canonical2 |-> normalize_operator(oc_op2)]
    /\ oc_pc' = "done"
    /\ UNCHANGED <<oc_op1, oc_op2>>

-----------------------------------------------------------------------------
(* Rule classification (src/src/rules/classifier.py), candidates           *)
(* (src/src/rules/candidates.py) and extraction                            *)
(* (src/src/extraction/extractor.py, validators.py).                       *)

LIMIT_KEYWORDS ==
    { <<"m","u","s","t"," ","n","o","t"," ","e","x","c","e","e","d">>,
      <<"m","a","x","i","m","u","m">>,
      <<"l","i","m","i","t">>,
      <<"r","a","t","i","o">>,
      <<"p","e","r","c","e","n","t">>,
      <<"%">> }
REQUIREMENT_KEYWORDS ==
    { <<"m","u","s","t">>,
      <<"m","a","n","d","a","t","o","r","y">>,
      <<"r","e","q","u","i","r","e","d">>,
      <<"s","h","a","l","l">> }
EXCEPTION_KEYWORDS ==
    { <<"e","x","c","e","p","t","i","o","n">>,
      <<"o","v","e","r","r","i","d","e">>,
      <<"a","p","p","r","o","v","a","l">>,
      <<"a","p","p","r","o","v","e","d"," ","b","y">> }

S_ltv == <<"l","t","v">>
S_loan_to_value == <<"l","o","a","n","-","t","o","-","v","a","l","u","e">>
S_income == <<"i","n","c","o","m","e">>
S_must == <<"m","u","s","t">>
S_shall == <<"s","h","a","l","l">>
S_approval == <<"a","p","p","r","o","v","a","l">>
S_percent == <<"p","e","r","c","e","n","t">>

\* classify_rule giving the LIMIT keywords precedence over the EXCEPTION ones
classify_rule_limit_first(text) ==
    LET text_l == Lower(text)
    IN  IF \E k \in LIMIT_KEYWORDS : Contains(k, text_l) THEN "LIMIT"
        ELSE IF \E k \in EXCEPTION_KEYWORDS : Contains(k, text_l) THEN "EXCEPTION"
        ELSE IF \E k \in REQUIREMENT_KEYWORDS : Contains(k, text_l) THEN "REQUIREMENT"
        ELSE "OTHER"

classify_rule(text) ==
    LET text_l == Lower(text)
    IN  IF \E k \in EXCEPTION_KEYWORDS : Contains(k, text_l) THEN "EXCEPTION"
        ELSE IF \E k \in LIMIT_KEYWORDS : Contains(k, text_l) THEN "LIMIT"
        ELSE IF \E k \in REQUIREMENT_KEYWORDS : Contains(k, text_l) THEN "REQUIREMENT"
        ELSE "OTHER"

\* the heuristic confidence, in tenths
estimate_confidence(text, rule_type) ==
    LET score == 5
        bonus ==
            IF \/ /\ rule_type = "LIMIT"
                  /\ Contains(<<"%">>, text) \/ Contains(S_percent, Lower(text))
               \/ /\ rule_type = "REQUIREMENT"
                  /\ Contains(S_must, Lower(text)) \/ Contains(S_shall, Lower(text))
               \/ /\ rule_type = "EXCEPTION"
                  /\ Contains(S_approval, Lower(text))
            THEN 3 ELSE 0
    IN  Min(score + bonus, 10)

Candidate(text, doc_type, rule_type) ==
    [text |-> text, doc_type |-> doc_type, rule_type |-> rule_type,
     confidence |-> estimate_confidence(text, rule_type)]

\* a document is [doc_type |-> ..., elements |-> the texts of its elements]
RECURSIVE generate_rule_candidates(_)
generate_rule_candidates(doc) ==
    IF doc.elements = <<>> THEN <<>>
    ELSE LET text == Head(doc.elements)
             rule_type == classify_rule(text)
             rest == generate_rule_candidates(
                         [doc_type |-> doc.doc_type, elements |-> Tail(doc.elements)])
         IN  IF rule_type = "OTHER" THEN rest
             ELSE <<Candidate(text, doc.doc_type, rule_type)>> \o rest

\* re.search(r'(\d+)\s*(%|percent)', s).group(1), "" when nothing matches.
\* \d+ is greedy and what follows a digit run is no digit, so a match takes
\* a run of digits up to its end; the leftmost match starts the first run
\* that blanks and then % or percent follow
DigitRunEnds(s) ==
    { j \in 1..Len(s) : s[j] \in Digits /\ (j = Len(s) \/ s[j + 1] \notin Digits) }
DigitRunStarts(s) ==
    { i \in 1..Len(s) : s[i] \in Digits /\ (i = 1 \/ s[i - 1] \notin Digits) }
PercentFollows(s, j) ==
    LET after == { k \in (j + 1)..Len(s) : s[k] \notin Whitespace }
    IN  /\ after # {}
        /\ LET k == CHOOSE x \in after : \A y \in after : x <= y
           IN  \/ s[k] = "%"
               \/ /\ k + 6 <= Len(s)
                  /\ SubSeq(s, k, k + 6) = S_percent
percent_search(s) ==
    LET ends == { j \in DigitRunEnds(s) : PercentFollows(s, j) }
    IN  IF ends = {} THEN <<>>
        ELSE LET j == CHOOSE x \in ends : \A y \in ends : x <= y
                 starts == { i \in DigitRunStarts(s) : i <= j }
                 i == CHOOSE x \in starts : \A y \in starts : y <= x
             IN  SubSeq(s, i, j)

\* validate_extracted_rule accepting every record
validate_extracted_rule_lenient(rule) == TRUE

validate_extracted_rule(rule) ==
    /\ rule.rule_type = "LIMIT" => ~(rule.metric.t = "none" \/ rule.value.t = "none")
    /\ rule.rule_type = "REQUIREMENT" => ~(rule.metric.t = "none" \/ rule.operator.t = "none")

\* what extract_structured_rule returns: a rule, or None
Extracted(rule) == [t |-> "rule", rule |-> rule]
NoExtraction == [t |-> "none", rule |-> NoRule]

extract_structured_rule(candidate) ==
    LET text_l == Lower(candidate.text)
        rule_type == candidate.rule_type
        has_ltv == Contains(S_ltv, text_l) \/ Contains(S_loan_to_value, text_l)
        m == percent_search(text_l)
        metric ==
            IF rule_type = "LIMIT" /\ has_ltv THEN Str(S_LTV)
            ELSE IF rule_type = "REQUIREMENT" /\ Contains(S_income, text_l)
            THEN Str(S_INCOME_VERIFICATION)
            ELSE NoneStr
        operator ==
            IF rule_type = "EXCEPTION" THEN Str(S_REQUIRES_APPROVAL)
            ELSE IF rule_type = "LIMIT" /\ has_ltv THEN Str(S_LTE_SYM)
            ELSE IF rule_type = "REQUIREMENT" /\ Contains(S_income, text_l)
            THEN (IF Contains(S_must, text_l) THEN Str(S_REQUIRED) ELSE Str(S_OPTIONAL))
            ELSE NoneStr
        value ==
            IF rule_type = "EXCEPTION" THEN Str(S_TRUE)
            ELSE IF rule_type = "LIMIT" /\ has_ltv /\ m # <<>> THEN Str(m \o <<"%">>)
            ELSE NoneStr
        rule == ExtractedRule(candidate.doc_type, rule_type, metric, operator, value)
    IN  IF ~validate_extracted_rule(rule) THEN NoExtraction ELSE Extracted(rule)

\* _best_match (linker.py lines 33-55) over the similarities sims[i] of the
\* source to each candidate
RECURSIVE best_match_from(_, _, _, _, _, _)
best_match_from(source, cands, sims, i, best, best_so_far) ==
    IF i > Len(cands) THEN best
    ELSE LET c == cands[i]
             score == candidate_score(source, c, sims[i])
             better == takes_over(score, best_so_far, candidate_threshold(source, c))
         IN  best_match_from(source, cands, sims, i + 1,
                 IF better THEN Match(c, Round3(Min(score, score_cap))) ELSE best,
                 IF better THEN score ELSE best_so_far)

\* link (linker.py lines 10-31); pol_sims[r] and sys_sims[r] are the
\* similarities of regulation r to the policy and to the system rules
link(rules, pol_sims, sys_sims) ==
    LET regs == RulesOf(rules, "REGULATION")
        pols == RulesOf(rules, "POLICY")
        syss == RulesOf(rules, "SYSTEM")
    IN  [r \in 1..Len(regs) |->
            [regulation |-> regs[r],
             policy |-> best_match_from(regs[r], pols, pol_sims[r], 1, NoMatch, 0),
             system |-> best_match_from(regs[r], syss, sys_sims[r], 1, NoMatch, 0)]]

-----------------------------------------------------------------------------
(* The pipeline of src/main.py over three documents.                       *)

\* the three documents hold at most MaxElements elements together
MaxElements == 2

\* a percentage of more digits than int() converts
LongPercentage ==
    <<"l","t","v"," ","l","i","m","i","t"," ">> \o [i \in 1..(int_max_str_digits + 1) |-> "1"] \o <<"%">>

RegulationTexts ==
    { <<"L","T","V"," ","m","u","s","t"," ","n","o","t"," ","e","x","c","e","e","d"," ","8","0","%">>,
      <<"I","n","c","o","m","e"," ","m","u","s","t"," ","b","e"," ","v","e","r","i","f","i","e","d">>,
      <<"I","n","c","o","m","e"," ","m","u","s","t"," ","m","e","e","t"," ","r","a","t","i","o">>,
      <<"G","e","n","e","r","a","l"," ","p","r","o","v","i","s","i","o","n","s">> }
PolicyTexts ==
    { <<"L","o","a","n","-","T","o","-","V","a","l","u","e"," ","l","i","m","i","t"," ","7","5"," ","p","e","r","c","e","n","t">>,
      <<"L","T","V"," ","9","0","%"," ","w","i","t","h"," ","a","p","p","r","o","v","a","l">>,
      <<"I","n","c","o","m","e"," ","s","h","a","l","l"," ","b","e"," ","v","e","r","i","f","i","e","d">> }
SystemTexts ==
    { <<"l","t","v"," ","m","a","x"," ","8","5"," ","%">>,
      <<"i","n","c","o","m","e"," ","c","h","e","c","k"," ","r","e","q","u","i","r","e","d">>,
      <<"S","h","a","l","l"," ","n","o","t","i","f","y">>,
      <<"L","T","V"," ","l","i","m","i","t">> }

TextLists(texts, n) == UNION { [1..k -> texts] : k \in 0..n }

\* the lists of system texts; the long percentage is the only element of
\* its document
SystemLists(n) ==
    TextLists(SystemTexts, n) \cup (IF n >= 1 THEN { <<LongPercentage>> } ELSE {})

DocumentInputs ==
    UNION { UNION { { [REGULATION |-> r, POLICY |-> p, SYSTEM |-> y] :
                        y \in SystemLists(MaxElements - Len(r) - Len(p)) } :
                    p \in TextLists(PolicyTexts, MaxElements - Len(r)) } :
            r \in TextLists(RegulationTexts, MaxElements) }

NoDocuments == [REGULATION |-> <<>>, POLICY |-> <<>>, SYSTEM |-> <<>>]

pl_Idle ==
    /\ pl_pc = "idle"
    /\ pl_documents = NoDocuments
    /\ pl_candidates = <<>>
    /\ pl_extracted = <<>>
    /\ pl_rules = <<>>
    /\ pl_links = <<>>
    /\ pl_results = <<>>

pl_Init ==
    /\ pl_pc = "ingested"
    /\ pl_documents \in DocumentInputs
    /\ pl_candidates = <<>>
    /\ pl_extracted = <<>>
    /\ pl_rules = <<>>
    /\ pl_links = <<>>
    /\ pl_results = <<>>

Document(doc_type) == [doc_type |-> doc_type, elements |-> pl_documents[doc_type]]

\* main.py lines 21-23: the candidates of the three documents
GenerateCandidates ==
    /\ UNCHANGED pl_frame
    /\ pl_pc = "ingested"
    /\ pl_candidates' = generate_rule_candidates(Document("REGULATION"))
                            \o generate_rule_candidates(Document("POLICY"))
                            \o generate_rule_candidates(Document("SYSTEM"))
    /\ pl_pc' = "candidates"
    /\ UNCHANGED <<pl_documents, pl_extracted, pl_rules, pl_links, pl_results>>

\* main.py lines 47-53: every candidate is extracted, the rules that are
\* not None are kept
ExtractRules ==
    /\ UNCHANGED pl_frame
    /\ pl_pc = "candidates"
    /\ pl_extracted' = [i \in 1..Len(pl_candidates) |->
                            extract_structured_rule(pl_candidates[i])]
    /\ pl_rules' = LET kept == SelectSeq(pl_extracted', LAMBDA e : e.t = "rule")
                   IN  [i \in 1..Len(kept) |-> kept[i].rule]
    /\ pl_pc' = "extracted"
    /\ UNCHANGED <<pl_documents, pl_candidates, pl_links, pl_results>>

\* main.py lines 64-65: the links, for similarities the embedder returns
LinkRules ==
    /\ UNCHANGED pl_frame
    /\ pl_pc = "extracted"
    /\ LET regs == RulesOf(pl_rules, "REGULATION")
           pols == RulesOf(pl_rules, "POLICY")
           syss == RulesOf(pl_rules, "SYSTEM")
       IN  \E pol_sims \in [1..Len(regs) -> [1..Len(pols) -> SimilarityInputs]],
              sys_sims \in [1..Len(regs) -> [1..Len(syss) -> SimilarityInputs]] :
               pl_links' = link(pl_rules, pol_sims, sys_sims)
    /\ pl_pc' = "linked"
    /\ UNCHANGED <<pl_documents, pl_candidates, pl_extracted, pl_rules, pl_results>>

\* main.py lines 98-99: the next link is evaluated; nothing catches what
\* evaluate_trace raises
EvaluateLink ==
    /\ UNCHANGED pl_frame
    /\ pl_pc = "linked"
    /\ Len(pl_results) < Len(pl_links)
    /\ LET result == evaluate_trace(pl_links[Len(pl_results) + 1])
       IN  IF result.raised
           THEN pl_pc' = "raised" /\ UNCHANGED pl_results
           ELSE pl_pc' = "linked" /\ pl_results' = Append(pl_results, result)
    /\ UNCHANGED <<pl_documents, pl_candidates, pl_extracted, pl_rules, pl_links>>

\* every link has been evaluated
PipelineReturn ==
    /\ UNCHANGED pl_frame
    /\ pl_pc = "linked"
    /\ Len(pl_results) = Len(pl_links)
    /\ pl_pc' = "done"
    /\ UNCHANGED <<pl_documents, pl_candidates, pl_extracted, pl_rules, pl_links,
                   pl_results>>

-----------------------------------------------------------------------------
(* The /process endpoint (src/api.py).                                     *)

\* lines 147-151 and 158-163
required_files == <<"regulation.pdf", "policy.docx", "system_rules.xlsx">>
steps ==
    << [script |-> "s1_extract.py", name |-> "Extraction"],
       [script |-> "s2_llm_process.py", name |-> "Regulation Processing"],
       [script |-> "s3_bank_ext.py", name |-> "Bank Extraction"],
       [script |-> "s4_final.py", name |-> "Comparison"] >>

\* line 172: output[:500]
preview_length == 500
output_preview(output) == SubSeq(output, 1, Min(Len(output), preview_length))

\* what a script may print: nothing, a few characters, more than a preview
OutputInputs ==
    { <<>>, <<"o","k">>, [i \in 1..(preview_length + 1) |-> "x"] }

\* the step loop going on after a step that failed
stops_pipeline_never(success) == FALSE

\* line 175: a step that did not succeed ends the request
stops_pipeline(success) == ~success

NoResponse == [status_code |-> 0, status |-> "", failed_at |-> ""]

ap_Idle ==
    /\ ap_pc = "idle"
    /\ ap_files = {}
    /\ ap_runs = <<>>
    /\ ap_results = <<>>
    /\ ap_response = NoResponse

ap_Init ==
    /\ ap_pc = "check"
    /\ ap_files \in SUBSET { required_files[i] : i \in 1..Len(required_files) }
    /\ ap_runs = <<>>
    /\ ap_results = <<>>
    /\ ap_response = NoResponse

\* lines 153-155: the first missing file ends the request with status 400
CheckFiles ==
    /\ UNCHANGED ap_frame
    /\ ap_pc = "check"
    /\ LET missing == { i \in 1..Len(required_files) : required_files[i] \notin ap_files }
       IN  IF missing # {}
           THEN /\ ap_response' =
                     [status_code |-> 400, status |-> "error",
                      failed_at |-> required_files[CHOOSE i \in missing :
                                                      \A j \in missing : i <= j]]
                /\ ap_pc' = "done"
           ELSE /\ ap_pc' = "run"
                /\ UNCHANGED ap_response
    /\ UNCHANGED <<ap_files, ap_runs, ap_results>>

\* lines 167-183: the next script is run to its end and its outcome
\* recorded; a script that fails ends the request with status 500
RunPipelineStep ==
    /\ UNCHANGED ap_frame
    /\ ap_pc = "run"
    /\ Len(ap_results) < Len(steps)
    /\ \E success \in BOOLEAN, output \in OutputInputs :
         LET step == steps[Len(ap_results) + 1]
         IN  /\ ap_runs' = Append(ap_runs, step.script)
             /\ ap_results' = Append(ap_results,
                                 [step |-> step.name, success |-> success,
                                  output_preview |-> output_preview(output)])
             /\ IF stops_pipeline(success)
                THEN /\ ap_response' = [status_code |-> 500, status |-> "failed",
                                        failed_at |-> step.name]
                     /\ ap_pc' = "done"
                ELSE /\ ap_pc' = "run"
                     /\ UNCHANGED ap_response
    /\ UNCHANGED ap_files

\* lines 185-190: every step has run
ProcessReturn ==
    /\ UNCHANGED ap_frame
    /\ ap_pc = "run"
    /\ Len(ap_results) = Len(steps)
    /\ ap_response' = [status_code |-> 200, status |-> "completed", failed_at |-> ""]
    /\ ap_pc' = "done"
    /\ UNCHANGED <<ap_files, ap_runs, ap_results>>

-----------------------------------------------------------------------------
(* Specifications.                                                         *)

InitThresholds ==
    /\ ct_Init
    /\ ev_Idle /\ cr_Idle /\ fa_Idle /\ lk_Idle /\ pe_Idle
    /\ ss_Idle /\ oc_Idle /\ pl_Idle /\ ap_Idle
NextThresholds == CompareThresholds /\ UNCHANGED ct_frame
SpecThresholds == InitThresholds /\ [][NextThresholds]_vars

InitTrace ==
    /\ ev_Init
    /\ ct_Idle /\ cr_Idle /\ fa_Idle /\ lk_Idle /\ pe_Idle
    /\ ss_Idle /\ oc_Idle /\ pl_Idle /\ ap_Idle
NextTrace == EvaluateTrace /\ UNCHANGED ev_frame
SpecTrace == InitTrace /\ [][NextTrace]_vars

InitCompare ==
    /\ cr_Init
    /\ ct_Idle /\ ev_Idle /\ fa_Idle /\ lk_Idle /\ pe_Idle
    /\ ss_Idle /\ oc_Idle /\ pl_Idle /\ ap_Idle
NextCompare ==
    \/ CompareRuleStart
    \/ FindBestMatchEnter
    \/ ScanCandidate
    \/ FindBestMatchReturn
    \/ CompareRuleReturn
SpecCompare == InitCompare /\ [][NextCompare]_vars

InitFormat ==
    /\ fa_Init
    /\ ct_Idle /\ ev_Idle /\ cr_Idle /\ lk_Idle /\ pe_Idle
    /\ ss_Idle /\ oc_Idle /\ pl_Idle /\ ap_Idle
NextFormat == FormatAuditEntry /\ UNCHANGED fa_frame
SpecFormat == InitFormat /\ [][NextFormat]_vars

InitLink ==
    /\ lk_Init
    /\ ct_Idle /\ ev_Idle /\ cr_Idle /\ fa_Idle /\ pe_Idle
    /\ ss_Idle /\ oc_Idle /\ pl_Idle /\ ap_Idle
NextLink == LinkStart \/ BestMatchScan \/ BestMatchReturn \/ LinkReturn
SpecLink == InitLink /\ [][NextLink]_vars

InitParallel ==
    /\ pe_Init
    /\ ct_Idle /\ ev_Idle /\ cr_Idle /\ fa_Idle /\ lk_Idle
    /\ ss_Idle /\ oc_Idle /\ pl_Idle /\ ap_Idle
NextParallel ==
    \E p \in Evaluations :
        \/ EvalStart(p)
        \/ EvalEnter(p)
        \/ EvalScan(p)
        \/ EvalMatchReturn(p)
        \/ EvalReturn(p)
SpecParallel == InitParallel /\ [][NextParallel]_vars

InitSimilarity ==
    /\ ss_Init
    /\ ct_Idle /\ ev_Idle /\ cr_Idle /\ fa_Idle /\ lk_Idle
    /\ pe_Idle /\ oc_Idle /\ pl_Idle /\ ap_Idle
NextSimilarity == StringSimilarity
SpecSimilarity == InitSimilarity /\ [][NextSimilarity]_vars

InitOperators ==
    /\ oc_Init
    /\ ct_Idle /\ ev_Idle /\ cr_Idle /\ fa_Idle /\ lk_Idle
    /\ pe_Idle /\ ss_Idle /\ pl_Idle /\ ap_Idle
NextOperators == OperatorsCompatible
SpecOperators == InitOperators /\ [][NextOperators]_vars

InitPipeline ==
    /\ pl_Init
    /\ ct_Idle /\ ev_Idle /\ cr_Idle /\ fa_Idle /\ lk_Idle
    /\ pe_Idle /\ ss_Idle /\ oc_Idle /\ ap_Idle
NextPipeline ==
    \/ GenerateCandidates
    \/ ExtractRules
    \/ LinkRules
    \/ EvaluateLink
    \/ PipelineReturn
SpecPipeline == InitPipeline /\ [][NextPipeline]_vars

InitProcess ==
    /\ ap_Init
    /\ ct_Idle /\ ev_Idle /\ cr_Idle /\ fa_Idle /\ lk_Idle
    /\ pe_Idle /\ ss_Idle /\ oc_Idle /\ pl_Idle
NextProcess == CheckFiles \/ RunPipelineStep \/ ProcessReturn
SpecProcess == InitProcess /\ [][NextProcess]_vars

-----------------------------------------------------------------------------
(* Claims about compare_thresholds, under SpecThresholds.                  *)

\* the family of an operator: the three sets of operators_compatible
OperatorFamily(op) ==
    IF ~Truthy(op) THEN "empty"
    ELSE IF Upper(op.s) \in max_ops THEN "max"
    ELSE IF Upper(op.s) \in min_ops THEN "min"
    ELSE IF Upper(op.s) \in eq_ops THEN "eq"
    ELSE "unknown"

RegFamily == OperatorFamily(reg_threshold.operator)
CmpFamily == OperatorFamily(cmp_threshold.operator)
RegValue == reg_threshold.value_numeric
CmpValue == cmp_threshold.value_numeric
IsNull(val) == val.t \in {"none", "missing"}
BothNumbers == RegValue.t = "num" /\ CmpValue.t = "num"

\* C2: two numbers under operators of one family: a max-type regulation
\* passes iff candidate <= regulation, a min-type one iff candidate >=
\* regulation, an equality iff the values are equal
C2_SameFamilyComparison ==
    (ct_pc = "done" /\ BothNumbers /\ RegFamily = CmpFamily
        /\ RegFamily \in {"max", "min", "eq"})
    => ct_result.ok =
         (CASE RegFamily = "max" -> CmpValue.v <= RegValue.v
            [] RegFamily = "min" -> CmpValue.v >= RegValue.v
            [] RegFamily = "eq"  -> CmpValue.v = RegValue.v)

\* C2 witness: a max-type pair whose candidate allows exactly the regulatory
\* bound passes, and the comparison has run
C2_Witness ==
    /\ ct_pc = "done" /\ BothNumbers
    /\ RegFamily = "max" /\ CmpFamily = "max"
    /\ CmpValue.v = RegValue.v
    /\ ct_result.ok

\* C5 as stated: a null value_numeric on either side always passes
C5_NullAlwaysPasses ==
    (ct_pc = "done" /\ (IsNull(RegValue) \/ IsNull(CmpValue)))
    => ct_result.ok

\* C5 amended: a null value_numeric on either side passes as "cannot
\* compare" provided the other side is not a boolean
C5_NullPassesUnlessBoolean ==
    (ct_pc = "done" /\ (IsNull(RegValue) \/ IsNull(CmpValue))
        /\ RegValue.t # "bool" /\ CmpValue.t # "bool")
    => (ct_result.ok /\ ct_result.msg = "Cannot compare (missing value)")

\* C5 witness: a null regulation value against a candidate number has passed
C5_Witness ==
    /\ ct_pc = "done"
    /\ IsNull(RegValue) /\ CmpValue.t = "num"
    /\ ct_result.ok

\* C6: with a boolean on either side the pair passes iff both values are
\* booleans and equal, and fails with a mismatch otherwise
C6_BooleanExactEquality ==
    (ct_pc = "done" /\ (RegValue.t = "bool" \/ CmpValue.t = "bool"))
    => /\ ct_result.ok = (RegValue.t = "bool" /\ CmpValue.t = "bool"
                            /\ RegValue.v = CmpValue.v)
       /\ (~ct_result.ok => ct_result.msg = "Mismatch")

\* C7: two numbers under operators of different families, or with an
\* unknown or empty operator on either side, always pass
C7_OperatorMismatchPasses ==
    (ct_pc = "done" /\ BothNumbers
        /\ (RegFamily # CmpFamily
              \/ RegFamily \in {"unknown", "empty"}
              \/ CmpFamily \in {"unknown", "empty"}))
    => ct_result.ok

-----------------------------------------------------------------------------
(* Claims about compare_rule and find_best_match, under SpecCompare.       *)

\* the regulatory threshold has a match that passes compare_thresholds
MatchedAndPasses(k) ==
    /\ match_results[k].matched # 0
    /\ compare_thresholds(reg_thresholds[k],
                          all_source_thresholds[match_results[k].matched]).ok

\* C1: compare_rule returns N/A exactly when the regulatory rule has no
\* thresholds; otherwise No when the pool is empty; otherwise Yes exactly
\* when every regulatory threshold has a match and passes, and No when one
\* has no match or fails
C1_StatusOfCompareRule ==
    cr_pc = "done" =>
        /\ cr_result.status \in {"N/A", "Yes", "No"}
        /\ (cr_result.status = "N/A") = (reg_thresholds = <<>>)
        /\ (reg_thresholds # <<>> /\ PoolOf(source_rules) = <<>>
              => cr_result.status = "No")
        /\ (reg_thresholds # <<>> /\ PoolOf(source_rules) # <<>>
              => /\ Len(match_results) = Len(reg_thresholds)
                 /\ (cr_result.status = "Yes")
                      = (\A k \in 1..Len(reg_thresholds) : MatchedAndPasses(k)))

\* C1 witness: of two regulatory thresholds the first has a match and
\* passes, the second has no match, and compare_rule returned No
C1_Witness ==
    /\ cr_pc = "done"
    /\ Len(reg_thresholds) = 2 /\ Len(match_results) = 2
    /\ MatchedAndPasses(1)
    /\ match_results[2].matched = 0
    /\ cr_result.status = "No"

\* the accepted candidates of the find_best_match call for threshold k, as
\* positions in the scan log
AcceptedIn(k) == { n \in 1..Len(scan_log) : scan_log[n].reg = k /\ scan_log[n].accepted }

\* the first accepted candidate of greatest score, 0 if none was accepted
FirstBest(k) ==
    IF AcceptedIn(k) = {} THEN 0
    ELSE scan_log[CHOOSE n \in AcceptedIn(k) : \A m \in AcceptedIn(k) :
                      \/ RLt(scan_log[m].score, scan_log[n].score)
                      \/ scan_log[m].score = scan_log[n].score /\ n <= m].cmp
ScoreOf(k, c) ==
    scan_log[CHOOSE n \in AcceptedIn(k) : scan_log[n].cmp = c].score

\* C3: find_best_match keeps the first accepted candidate of greatest score
\* as its running best and returns it with its score when that score is at
\* least 0.4; it returns None when no candidate was accepted, when the best
\* score is below 0.4, and when the regulatory parameter is empty
C3_ReturnsFirstBest ==
    /\ cr_pc = "scan" => best_match = FirstBest(reg_index)
    /\ cr_pc = "scan" /\ best_match # 0 => best_score = ScoreOf(reg_index, best_match)
    /\ \A k \in 1..Len(match_results) :
         LET r == match_results[k]
             c == FirstBest(k)
         IN  IF ~Truthy(Get(reg_thresholds[k].parameter, Str(<<>>)))
             THEN r.matched = 0 /\ \A n \in 1..Len(scan_log) : scan_log[n].reg # k
             ELSE IF c = 0 \/ RLt(ScoreOf(k, c), Rat(4, 10))
             THEN r.matched = 0
             ELSE r.matched = c /\ r.confidence = ScoreOf(k, c)

\* C3 witness: a call returned the first of two accepted candidates that
\* have the same greatest score
C3_Witness ==
    \E k \in 1..Len(match_results) :
        /\ match_results[k].matched # 0
        /\ \E n, m \in AcceptedIn(k) :
             /\ n < m
             /\ scan_log[n].score = scan_log[m].score
             /\ scan_log[n].cmp = match_results[k].matched
             /\ scan_log[n].score = match_results[k].confidence

\* name similarity and operator bonus of a visited candidate
EventSimilarity(e) ==
    string_similarity(Get(reg_thresholds[e.reg].parameter, Str(<<>>)),
                      Get(all_source_thresholds[e.cmp].parameter, Str(<<>>)))
EventBonus(e) ==
    IF operators_compatible(Get(reg_thresholds[e.reg].operator, Str(<<>>)),
                            Get(all_source_thresholds[e.cmp].operator, Str(<<>>)))
    THEN Rat(1, 10) ELSE Rat(0, 1)

\* C4: a candidate of similarity s is accepted directly at s + bonus iff
\* s >= 0.7; one with 0.3 <= s < 0.7 is accepted only if the oracle is
\* enabled, queried and confirms, at (s + 0.9)/2 + bonus; the oracle is
\* queried for no candidate with s < 0.3 or s >= 0.7, and not at all when it
\* is disabled.  The scan log only grows, so every visited candidate is the
\* last entry of the log in the state that follows its visit.
C4_AcceptanceBands ==
    scan_log # <<>> =>
        LET e == scan_log[Len(scan_log)]
            sim == EventSimilarity(e)
            direct == RLe(Rat(7, 10), sim)
            mid == RLe(Rat(3, 10), sim) /\ RLt(sim, Rat(7, 10))
        IN  /\ e.queried = (mid /\ use_llm)
            /\ e.accepted = (direct \/ (mid /\ use_llm /\ e.queried /\ e.response = "yes"))
            /\ (direct => e.score = RAdd(sim, EventBonus(e)))
            /\ (e.accepted /\ ~direct
                  => e.score = RAdd(RHalf(RAdd(sim, Rat(9, 10))), EventBonus(e)))

\* C4 witness: one call has visited a candidate below 0.3, one the oracle
\* confirmed, and one accepted directly
C4_Witness ==
    \E a, b, c \in 1..Len(scan_log) :
        /\ scan_log[a].reg = scan_log[b].reg /\ scan_log[b].reg = scan_log[c].reg
        /\ RLt(EventSimilarity(scan_log[a]), Rat(3, 10))
        /\ ~scan_log[a].accepted
        /\ scan_log[b].queried /\ scan_log[b].accepted
        /\ ~scan_log[c].queried /\ scan_log[c].accepted

\* the visits at which the oracle call failed
FailedCalls == { n \in 1..Len(scan_log) : scan_log[n].queried /\ scan_log[n].response = "raise" }

\* a failed call is not an acceptance, and the scan of every completed
\* find_best_match call has visited the whole pool
FailureDegradesToNoMatch ==
    /\ \A n \in FailedCalls :
         ~scan_log[n].accepted /\ scan_log[n].score = Rat(0, 1)
    /\ FailedCalls # {} => cr_pc # "raised"
    /\ \A n \in FailedCalls :
         scan_log[n].reg <= Len(match_results) =>
            \A c \in 1..Len(all_source_thresholds) :
               \E m \in 1..Len(scan_log) :
                  scan_log[m].reg = scan_log[n].reg /\ scan_log[m].cmp = c

\* the step in which an oracle call fails leaves the running best alone
\* and moves on to the next candidate of the pool
FailureStep ==
    FailedCalls' # FailedCalls =>
        /\ cr_pc' = "scan"
        /\ cmp_index' = cmp_index + 1
        /\ best_match' = best_match /\ best_score' = best_score
        /\ all_source_thresholds' = all_source_thresholds

\* C16: when the oracle call fails for a candidate, that candidate is not
\* accepted, find_best_match goes on with the rest of the pool, and
\* compare_rule returns a status: the failure never leaves the evaluation
C16_OracleFailureContained ==
    /\ []FailureDegradesToNoMatch
    /\ [][FailureStep]_vars
    /\ [](FailedCalls # {} /\ cr_pc \notin {"scan", "loop"}
            => cr_pc = "done" /\ cr_result.status \in {"Yes", "No"})

\* C16 witness: compare_rule returned although an oracle call failed, and
\* a candidate visited after the failed call in the same scan was matched
C16_Witness ==
    /\ cr_pc = "done"
    /\ \E n \in FailedCalls :
         /\ scan_log[n].reg <= Len(match_results)
         /\ match_results[scan_log[n].reg].matched > scan_log[n].cmp

\* C18: find_best_match never modifies a threshold object of the pool it
\* is given: no step of a scan changes a field of any candidate, whether
\* the candidate is accepted through the oracle or displaced later
C18_PoolNeverModified ==
    [][cr_pc = "scan" => all_source_thresholds' = all_source_thresholds]_vars

\* C21: compare_rule never fails on a rule whose keys are absent or null
\* or whose thresholds list is empty: it always produces a status
C21_NeverRaisesOnNullFields ==
    /\ cr_pc # "raised"
    /\ cr_pc = "done" => cr_result.status \in {"N/A", "Yes", "No"}

\* C27: every candidate find_best_match accepts scores at least 0.6, so the
\* 0.4 floor never rejects the running best: a call returns no match exactly
\* when it accepted no candidate of the pool
C27_FloorNeverRejects ==
    /\ \A n \in 1..Len(scan_log) :
         scan_log[n].accepted => RLe(Rat(6, 10), scan_log[n].score)
    /\ cr_pc = "scan" /\ best_match # 0 => RLe(Rat(4, 10), best_score)
    /\ \A k \in 1..Len(match_results) :
         (match_results[k].matched = 0) = (AcceptedIn(k) = {})

\* C27 witness: a call that rejected one candidate returned another, which
\* the oracle confirmed, at a score below 0.7
C27_Witness ==
    \E k \in 1..Len(match_results) :
        /\ match_results[k].matched # 0
        /\ RLt(match_results[k].confidence, Rat(7, 10))
        /\ \E n \in 1..Len(scan_log) : scan_log[n].reg = k /\ ~scan_log[n].accepted

-----------------------------------------------------------------------------
(* Claims about evaluate_trace, under SpecTrace.                           *)

Findings == { ev_result.findings[i] : i \in 1..Len(ev_result.findings) }
Violations ==
    {"MISSING_POLICY", "MISSING_SYSTEM", "SYSTEM_TOO_LENIENT", "CONTROL_WEAKENED"}
HasPolicy == trace.policy.t = "match"
HasSystem == trace.system.t = "match"

\* C8: evaluate_trace returns a non-empty list of findings; COMPLIANT is in
\* it iff no other finding is; both matches and no violation give exactly
\* COMPLIANT
C8_CompliantOnlyAlone ==
    ev_pc = "done" =>
        /\ ~ev_result.raised
        /\ ev_result.findings # <<>>
        /\ Findings \subseteq FindingType
        /\ ("COMPLIANT" \in Findings) = (Findings \cap Violations = {})
        /\ (HasPolicy /\ HasSystem
              /\ "SYSTEM_TOO_LENIENT" \notin Findings
              /\ "CONTROL_WEAKENED" \notin Findings
            => ev_result.findings = <<"COMPLIANT">>)

\* C8 witness: a LIMIT regulation of 80% with a policy match and a system
\* LIMIT of 75% has been evaluated to exactly COMPLIANT
C8_Witness ==
    /\ ev_pc = "done"
    /\ HasPolicy /\ HasSystem
    /\ trace.regulation.value = Str(<<"8","0","%">>)
    /\ trace.system.rule.value = Str(<<"7","5","%">>)
    /\ ev_result.findings = <<"COMPLIANT">>

\* C9: no finding occurs twice in the list evaluate_trace returns
C9_FindingsOccurOnce ==
    ev_pc = "done" =>
        \A i, j \in 1..Len(ev_result.findings) :
            ev_result.findings[i] = ev_result.findings[j] => i = j

\* C10: MISSING_POLICY is reported iff the trace has no policy match, and
\* MISSING_SYSTEM iff it has no system match
C10_MissingIffNoMatch ==
    ev_pc = "done" =>
        /\ ("MISSING_POLICY" \in Findings) = ~HasPolicy
        /\ ("MISSING_SYSTEM" \in Findings) = ~HasSystem

\* C10 witness: a REQUIREMENT regulation with a policy match and no system
\* match has been evaluated to MISSING_SYSTEM alone
C10_Witness ==
    /\ ev_pc = "done"
    /\ trace.regulation.rule_type = "REQUIREMENT"
    /\ HasPolicy /\ ~HasSystem
    /\ ev_result.findings = <<"MISSING_SYSTEM">>

\* the percentage a LIMIT rule carries, as a number
PercentOf(rule) == IntValue(Remove(rule.value.s, "%"))

\* C11: SYSTEM_TOO_LENIENT is among the findings iff the regulation is a
\* LIMIT, a system match exists, and either the matched system rule is not a
\* LIMIT or both rules carry a value and the system's is strictly greater
C11_TooLenientIff ==
    ev_pc = "done" /\ ~ev_result.raised =>
        ("SYSTEM_TOO_LENIENT" \in Findings)
          = (/\ trace.regulation.rule_type = "LIMIT"
             /\ HasSystem
             /\ \/ trace.system.rule.rule_type # "LIMIT"
                \/ /\ Truthy(trace.regulation.value)
                   /\ Truthy(trace.system.rule.value)
                   /\ PercentOf(trace.system.rule) > PercentOf(trace.regulation))

\* C11 witness: a LIMIT regulation matched to a LIMIT system rule with the
\* same percentage was evaluated and SYSTEM_TOO_LENIENT was not found
C11_Witness ==
    /\ ev_pc = "done" /\ ~ev_result.raised
    /\ trace.regulation.rule_type = "LIMIT"
    /\ HasSystem /\ trace.system.rule.rule_type = "LIMIT"
    /\ PercentOf(trace.system.rule) = PercentOf(trace.regulation)
    /\ "SYSTEM_TOO_LENIENT" \notin Findings

\* C12: CONTROL_WEAKENED is among the findings iff the regulation is a
\* REQUIREMENT with operator REQUIRED, a system match exists, and the
\* matched system rule's operator is OPTIONAL
C12_ControlWeakenedIff ==
    ev_pc = "done" /\ ~ev_result.raised =>
        ("CONTROL_WEAKENED" \in Findings)
          = (/\ trace.regulation.rule_type = "REQUIREMENT"
             /\ trace.regulation.operator = Str(S_REQUIRED)
             /\ HasSystem
             /\ trace.system.rule.operator = Str(S_OPTIONAL))

\* C12 witness: a REQUIREMENT regulation with operator OPTIONAL matched to
\* an OPTIONAL system rule was evaluated without CONTROL_WEAKENED
C12_Witness ==
    /\ ev_pc = "done" /\ ~ev_result.raised
    /\ trace.regulation.rule_type = "REQUIREMENT"
    /\ trace.regulation.operator = Str(S_OPTIONAL)
    /\ HasSystem /\ trace.system.rule.operator = Str(S_OPTIONAL)
    /\ "CONTROL_WEAKENED" \notin Findings

-----------------------------------------------------------------------------
(* Claims about format_audit_entry, under SpecFormat.                      *)

\* C13: the severity is HIGH if the findings contain SYSTEM_TOO_LENIENT or
\* MISSING_SYSTEM, otherwise MEDIUM if they contain CONTROL_WEAKENED,
\* otherwise LOW; findings and evidence are those of the input
C13_SeverityMapping ==
    fa_pc = "done" =>
        /\ fa_entry.severity =
             IF Has(fa_result.findings, "SYSTEM_TOO_LENIENT")
                  \/ Has(fa_result.findings, "MISSING_SYSTEM") THEN "HIGH"
             ELSE IF Has(fa_result.findings, "CONTROL_WEAKENED") THEN "MEDIUM"
             ELSE "LOW"
        /\ fa_entry.findings = fa_result.findings
        /\ fa_entry.evidence = fa_result.evidence

-----------------------------------------------------------------------------
(* Claims about TraceabilityLinker, under SpecLink.                        *)

\* the threshold of the class being matched, and of a recorded score
ClassThreshold == IF lk_class = "SYSTEM" THEN 4500 ELSE 6000
Cleared == { i \in 1..Len(lk_scores) : lk_scores[i] >= ClassThreshold }

\* C14: a policy match is returned only if the candidate's score is at least
\* 0.6 and a system match only if it is at least 0.45; when no candidate of
\* a class clears its threshold the link's entry for that class is empty
C14_MatchesClearThreshold ==
    /\ lk_pc = "scan" /\ lk_best.idx # 0 => lk_best.idx \in Cleared
    /\ lk_pc = "scan" /\ Cleared = {} => lk_best = NoBest
    /\ \A n \in 1..Len(links) :
         /\ links[n].policy.t = "match" => links[n].policy.score >= 600
         /\ links[n].system.t = "match" => links[n].system.score >= 450

\* C14 witness: a regulation with a policy candidate got no policy match
\* and a system match whose score is exactly 0.45
C14_Witness ==
    \E n \in 1..Len(links) :
        /\ RulesOf(lk_rules, "POLICY") # <<>>
        /\ links[n].policy = NoMatch
        /\ links[n].system.t = "match"
        /\ links[n].system.score = 450

\* the score of a visited candidate, capped at 1.0
Capped(i) == Min(lk_scores[i], 10000)

\* C15: the match selected is the candidate of greatest score, the score
\* being similarity plus boost capped at 1.0, and the first in input order
\* among candidates of equal score; the recorded score lies in [0, 1]
C15_FirstOfGreatestCappedScore ==
    /\ lk_pc = "scan" /\ lk_best.idx # 0 =>
         /\ \A j \in Cleared :
              /\ Capped(j) <= Capped(lk_best.idx)
              /\ Capped(j) = Capped(lk_best.idx) => lk_best.idx <= j
         /\ lk_best.match.score \in 0..1000
    /\ \A n \in 1..Len(links) :
         /\ links[n].policy.t = "match" => links[n].policy.score \in 0..1000
         /\ links[n].system.t = "match" => links[n].system.score \in 0..1000

\* C17: a failure of the similarity collaborator never propagates out of
\* link: the pair counts as no match and link returns a link for every
\* regulation
C17_SimilarityFailureContained ==
    /\ lk_pc # "raised"
    /\ lk_pc = "done" => Len(links) = Len(lk_regs)

-----------------------------------------------------------------------------
(* Claims about interleaved evaluations, under SpecParallel.               *)

\* every evaluation that has returned has the result compare_rule gives
\* for its regulation alone
ResultsAsAlone ==
    \A p \in Evaluations :
        evals[p].pc = "done" =>
            evals[p].result =
                compare_rule(evals[p].reg_rule, shared_rules, pe_llm, pe_oracle)

\* a step leaves the source rules, every regulatory rule and the local
\* state of every other evaluation as they were
StepIsLocal ==
    /\ shared_rules' = shared_rules
    /\ \A p \in Evaluations : evals'[p].reg_rule = evals[p].reg_rule
    /\ \E p \in Evaluations : \A q \in Evaluations \ {p} : evals'[q] = evals[q]

Orderings(rules) ==
    { [i \in 1..Len(rules) |-> rules[f[i]]] :
        f \in { g \in [1..Len(rules) -> 1..Len(rules)] :
                  \A a, b \in 1..Len(rules) : g[a] = g[b] => a = b } }

\* C20: the status compare_rule derives for a regulation is the same for
\* every order in which the source rules are supplied
C20_OrderIndependent ==
    \A p \in Evaluations :
        evals[p].pc = "done" =>
            \A rules \in Orderings(shared_rules) :
                compare_rule(evals[p].reg_rule, rules, pe_llm, pe_oracle).status
                    = evals[p].result.status

-----------------------------------------------------------------------------
(* Claims about the severity of evaluate_trace's results, under SpecTrace. *)

\* the severity found by looking for the HIGH findings before the MEDIUM one
SeverityHighFirst(findings) ==
    IF Has(findings, "SYSTEM_TOO_LENIENT") \/ Has(findings, "MISSING_SYSTEM")
    THEN "HIGH"
    ELSE IF Has(findings, "CONTROL_WEAKENED") THEN "MEDIUM"
    ELSE "LOW"

\* C28: in a result of evaluate_trace CONTROL_WEAKENED never comes with
\* MISSING_SYSTEM or SYSTEM_TOO_LENIENT, nor SYSTEM_TOO_LENIENT with
\* MISSING_SYSTEM, so the check order of format_audit_entry gives the
\* severity that checking HIGH findings before MEDIUM ones gives
C28_SeverityOrderImmaterial ==
    ev_pc = "done" /\ ~ev_result.raised =>
        /\ ~("CONTROL_WEAKENED" \in Findings /\ "MISSING_SYSTEM" \in Findings)
        /\ ~("CONTROL_WEAKENED" \in Findings /\ "SYSTEM_TOO_LENIENT" \in Findings)
        /\ ~("SYSTEM_TOO_LENIENT" \in Findings /\ "MISSING_SYSTEM" \in Findings)
        /\ severity(ev_result.findings) = SeverityHighFirst(ev_result.findings)

\* C28 witness: a REQUIRED regulation without a system rule yields
\* MISSING_SYSTEM alone of the three, and severity HIGH
C28_Witness ==
    /\ ev_pc = "done"
    /\ trace.regulation.rule_type = "REQUIREMENT"
    /\ trace.regulation.operator = Str(S_REQUIRED)
    /\ "MISSING_SYSTEM" \in Findings
    /\ "CONTROL_WEAKENED" \notin Findings
    /\ severity(ev_result.findings) = "HIGH"

-----------------------------------------------------------------------------
(* Claims about string_similarity, under SpecSimilarity.                   *)

\* C24: a non-empty name is as similar to itself as can be:
\* string_similarity(a, a) = 1.0
C24_SelfSimilarityIsOne ==
    (ss_pc = "done" /\ Truthy(ss_s1) /\ ss_s2 = ss_s1) => ss_result = Rat(1, 1)

IsLetter(c) == IsLower(c) \/ IsUpper(c)

\* the tokens of a name split on underscores, whitespace, letter boundaries
\* and the steps from a lowercase to an uppercase letter, in lowercase
TokenStarts(s) ==
    { i \in 1..Len(s) :
        /\ IsLetter(s[i])
        /\ \/ i = 1
           \/ ~IsLetter(s[i - 1])
           \/ IsUpper(s[i]) /\ IsLower(s[i - 1]) }
TokenEnd(s, i) ==
    CHOOSE j \in i..Len(s) :
        /\ \A k \in (i + 1)..j : IsLetter(s[k]) /\ k \notin TokenStarts(s)
        /\ j = Len(s) \/ ~IsLetter(s[j + 1]) \/ (j + 1) \in TokenStarts(s)
CaseSplitWords(s) ==
    { w \in { Lower(SubSeq(s, i, TokenEnd(s, i))) : i \in TokenStarts(s) } :
        Len(w) > 2 /\ w \notin stop_words }

\* the names are distinct and neither contains the other once normalized
BelowContainment(a, b) ==
    LET n1 == normalize_text(a)
        n2 == normalize_text(b)
    IN  /\ n1 # <<>> /\ n2 # <<>> /\ n1 # n2
        /\ ~Contains(n1, n2) /\ ~Contains(n2, n1)

\* C25: two names that are neither equal nor contained in one another after
\* normalization, and whose token sets intersect, score max(0.7, Jaccard);
\* the tokens are the lowercase pieces between underscores, whitespace,
\* letter boundaries and camelCase steps, longer than 2 and outside the
\* stop-set
C25_TokenOverlapTier ==
    (ss_pc = "done" /\ Truthy(ss_s1) /\ Truthy(ss_s2)
        /\ BelowContainment(ss_s1, ss_s2)
        /\ CaseSplitWords(ss_s1.s) \cap CaseSplitWords(ss_s2.s) # {})
    => ss_result =
         RMax(Rat(7, 10),
              Rat(Cardinality(CaseSplitWords(ss_s1.s) \cap CaseSplitWords(ss_s2.s)),
                  Cardinality(CaseSplitWords(ss_s1.s) \cup CaseSplitWords(ss_s2.s))))

-----------------------------------------------------------------------------
(* Claims about operators_compatible, under SpecOperators.                 *)

\* the family of a canonical symbol
CanonicalFamily(symbol) ==
    IF symbol \in { <<"<","=">>, <<"<">> } THEN "max"
    ELSE IF symbol \in { <<">","=">>, <<">">> } THEN "min"
    ELSE IF symbol = <<"=","=">> THEN "eq"
    ELSE "unknown"

\* C26: operators_compatible is true iff one operator is empty or both are
\* of the same family; it is symmetric; and two non-empty operators are
\* compatible iff the canonical symbols normalize_operator gives them lie
\* in the same family
C26_CompatibleIffSameFamily ==
    oc_pc = "done" =>
        /\ oc_result.compatible =
              (\/ ~Truthy(oc_op1) \/ ~Truthy(oc_op2)
               \/ /\ OperatorFamily(oc_op1) = OperatorFamily(oc_op2)
                  /\ OperatorFamily(oc_op1) \in {"max", "min", "eq"})
        /\ oc_result.reversed = oc_result.compatible
        /\ (Truthy(oc_op1) /\ Truthy(oc_op2)) =>
              oc_result.compatible =
                (/\ CanonicalFamily(oc_result.canonical1)
                      = CanonicalFamily(oc_result.canonical2)
                 /\ CanonicalFamily(oc_result.canonical1) \in {"max", "min", "eq"})

-----------------------------------------------------------------------------
(* Claims about classification and extraction, under SpecPipeline.         *)

\* the text holds one of the keywords, in either case
Mentions(text, keywords) ==
    LET text_l == Lower(text) IN \E k \in keywords : Contains(k, text_l)
MentionsAny(text) ==
    Mentions(text, EXCEPTION_KEYWORDS \cup LIMIT_KEYWORDS \cup REQUIREMENT_KEYWORDS)

\* the texts of the candidates of one document, in the order of the list
CandidateTexts(doc_type) ==
    LET own == SelectSeq(pl_candidates, LAMBDA c : c.doc_type = doc_type)
    IN  [i \in 1..Len(own) |-> own[i].text]

\* C22: a returned LIMIT rule has metric and value, a returned REQUIREMENT
\* rule has metric and operator; a LIMIT text without loan-to-value term or
\* without percentage and a REQUIREMENT text without income yield no
\* record; an EXCEPTION candidate always yields a record with operator
\* REQUIRES_APPROVAL and value TRUE
C22_ExtractedRulesAreValid ==
    pl_pc = "extracted" =>
    /\ Len(pl_extracted) = Len(pl_candidates)
    /\ \A i \in 1..Len(pl_extracted) :
         LET c == pl_candidates[i]
             e == pl_extracted[i]
             text_l == Lower(c.text)
         IN  /\ (e.t = "rule" /\ e.rule.rule_type = "LIMIT")
                   => (e.rule.metric.t = "str" /\ e.rule.value.t = "str")
             /\ (e.t = "rule" /\ e.rule.rule_type = "REQUIREMENT")
                   => (e.rule.metric.t = "str" /\ e.rule.operator.t = "str")
             /\ (/\ c.rule_type = "LIMIT"
                 /\ \/ ~(Contains(S_ltv, text_l) \/ Contains(S_loan_to_value, text_l))
                    \/ percent_search(text_l) = <<>>)
                   => e.t = "none"
             /\ (c.rule_type = "REQUIREMENT" /\ ~Contains(S_income, text_l))
                   => e.t = "none"
             /\ c.rule_type = "EXCEPTION"
                   => /\ e.t = "rule"
                      /\ e.rule.operator = Str(S_REQUIRES_APPROVAL)
                      /\ e.rule.value = Str(S_TRUE)
    /\ \A i \in 1..Len(pl_rules) :
         /\ pl_rules[i].rule_type = "LIMIT"
               => (pl_rules[i].metric.t = "str" /\ pl_rules[i].value.t = "str")
         /\ pl_rules[i].rule_type = "REQUIREMENT"
               => (pl_rules[i].metric.t = "str" /\ pl_rules[i].operator.t = "str")

\* C22 witness: of two LIMIT candidates that name the loan-to-value ratio
\* the one without a percentage yielded no record, the other a rule
C22_Witness ==
    /\ pl_pc = "extracted"
    /\ Len(pl_extracted) = 2
    /\ pl_candidates[1].rule_type = "LIMIT" /\ pl_candidates[2].rule_type = "LIMIT"
    /\ Contains(S_ltv, Lower(pl_candidates[1].text))
    /\ pl_extracted[1].t = "none"
    /\ pl_extracted[2].t = "rule"
    /\ Len(pl_rules) = 1

\* C23: a text with an EXCEPTION keyword is EXCEPTION whatever else it
\* holds, else one with a LIMIT keyword is LIMIT, else one with a
\* REQUIREMENT keyword is REQUIREMENT, else it is OTHER; no candidate is
\* OTHER and the candidates of a document are its classified elements in
\* element order
C23_ClassificationPrecedence ==
    pl_pc = "candidates" =>
        /\ \A i \in 1..Len(pl_candidates) :
             LET c == pl_candidates[i]
             IN  /\ c.rule_type \in {"EXCEPTION", "LIMIT", "REQUIREMENT"}
                 /\ (c.rule_type = "EXCEPTION") = Mentions(c.text, EXCEPTION_KEYWORDS)
                 /\ (c.rule_type = "LIMIT")
                       = (/\ ~Mentions(c.text, EXCEPTION_KEYWORDS)
                          /\ Mentions(c.text, LIMIT_KEYWORDS))
                 /\ (c.rule_type = "REQUIREMENT")
                       = (/\ ~Mentions(c.text, EXCEPTION_KEYWORDS)
                          /\ ~Mentions(c.text, LIMIT_KEYWORDS)
                          /\ Mentions(c.text, REQUIREMENT_KEYWORDS))
        /\ \A doc_type \in {"REGULATION", "POLICY", "SYSTEM"} :
             CandidateTexts(doc_type)
                 = SelectSeq(pl_documents[doc_type], MentionsAny)

\* C23 witness: a text whose LIMIT keyword precedes its EXCEPTION keyword
\* became an EXCEPTION candidate, ahead of the candidate of the element
\* that follows it
C23_Witness ==
    /\ pl_pc = "candidates"
    /\ Len(pl_candidates) = 2
    /\ pl_candidates[1].rule_type = "EXCEPTION"
    /\ Mentions(pl_candidates[1].text, LIMIT_KEYWORDS)
    /\ pl_candidates[2].rule_type = "REQUIREMENT"
    /\ pl_candidates[2].doc_type = pl_candidates[1].doc_type
    /\ pl_candidates[2].text = pl_documents[pl_candidates[1].doc_type][2]

\* the value is decimal digits followed by a percent sign
IsPercentage(v) ==
    /\ v.t = "str"
    /\ Len(v.s) >= 2
    /\ v.s[Len(v.s)] = "%"
    /\ \A i \in 1..(Len(v.s) - 1) : v.s[i] \in Digits

\* C29: evaluate_trace never fails on a link built from extracted rules:
\* every LIMIT rule has a value of decimal digits followed by %, which the
\* integer parse accepts
C29_EvaluationNeverFails ==
    /\ pl_pc # "raised"
    /\ \A i \in 1..Len(pl_rules) :
         pl_rules[i].rule_type = "LIMIT" => IsPercentage(pl_rules[i].value)

-----------------------------------------------------------------------------
(* Claims about the /process endpoint, under SpecProcess.                  *)

FailedSteps == { i \in 1..Len(ap_results) : ~ap_results[i].success }
AllFilesPresent == \A i \in 1..Len(required_files) : required_files[i] \in ap_files

\* the scripts run are the first steps in their order; only the last step
\* run can have failed; the answer names it; "completed" means that all
\* four steps succeeded; nothing is run when a file is missing
ProcessOrder ==
    /\ Len(ap_runs) = Len(ap_results) /\ Len(ap_runs) <= Len(steps)
    /\ \A i \in 1..Len(ap_runs) :
         ap_runs[i] = steps[i].script /\ ap_results[i].step = steps[i].name
    /\ \A i \in FailedSteps : i = Len(ap_results)
    /\ (FailedSteps # {})
         => /\ ap_pc = "done"
            /\ ap_response.status = "failed"
            /\ ap_response.failed_at = steps[Len(ap_results)].name
    /\ ap_response.status = "completed"
         => Len(ap_results) = Len(steps) /\ FailedSteps = {}
    /\ ~AllFilesPresent => ap_runs = <<>>

\* a script is started only after every earlier step has succeeded, and
\* nothing is started once the endpoint has answered
StepAfterSuccess ==
    ap_runs' # ap_runs
        => /\ FailedSteps = {}
           /\ ap_pc = "run"
           /\ ap_runs' = Append(ap_runs, steps[Len(ap_runs) + 1].script)

\* C30: /process runs extraction, regulation processing, bank extraction
\* and comparison in this order, starts a step only if every earlier one
\* succeeded, names the first failing step in its answer and runs none
\* after it, answers "completed" only if all four succeeded, and runs no
\* step when one of the three files is missing
C30_StepsInOrder ==
    /\ []ProcessOrder
    /\ [][StepAfterSuccess]_vars

\* C30 witness: the third step failed after two that succeeded, the answer
\* names it and the fourth was not run
C30_Witness ==
    /\ ap_pc = "done"
    /\ Len(ap_runs) = 3
    /\ ap_results[1].success /\ ap_results[2].success /\ ~ap_results[3].success
    /\ ap_response.failed_at = "Bank Extraction"

=============================================================================
